---- MODULE Spec2Model ----
(***************************************************************************)
(* A model of the autodiff package: the DualNumber arithmetic of forward   *)
(* mode, the rNode computation graph of reverse mode (node creation        *)
(* counter, operators, topological sort, backward pass) and the Func       *)
(* orchestrator (evaluate, jacobian in both modes, trace, graph).          *)
(*                                                                         *)
(* A user function is a straight-line program over the overloaded          *)
(* operators: instruction k computes slot num_inputs + k from earlier      *)
(* slots and numeric literals; the function returns one slot or a tuple    *)
(* of slots.  Numbers are integers.  The one irrational quantity of the    *)
(* modelled operators, the factor log(base) in the adjoint that __pow__    *)
(* gives its exponent, is kept symbolic (see Adj).                         *)
(***************************************************************************)
EXTENDS Integers, Sequences, FiniteSets, TLC

VARIABLES
    func,       \* the Func object: func, num_inputs, num_outputs
    p,          \* the point the caller evaluates the Func at
    increment,  \* rNode.increment, the class-wide node creation counter
    heap,       \* the rNode objects of the running evaluation, by identity
    frame,      \* the running entry point and its arguments
    pc,         \* position inside the running entry point
    zs,         \* reverse mode: the node bound to each slot of the function
    res,        \* reverse mode: what the user function returned (node ids)
    jacobian,   \* the jacobian array being filled
    val,        \* the val array being filled
    bw,         \* the frame of the running rNode.backward call
    calls,      \* how often the running call has invoked the user function
    made,       \* DualNumber and rNode objects the running call has created
    result,     \* what the last finished call returned or raised
    prev,       \* what the first reverse-mode jacobian call returned, and val
    second      \* a second reverse-mode evaluation in the same process

vars == <<func, p, increment, heap, frame, pc, zs, res, jacobian, val, bw,
          calls, made, result, prev, second>>

----------------------------------------------------------------------------
(* Bounds of the model.                                                    *)

\* longest function body, in operator applications, of a single evaluation
MaxOps == 2
\* longest function body of a Func that is called again and again
SessionOps == 1
\* the node counter stops graph() calls, which never reset it, from running on
MaxIncrement == 3
\* coordinates of the points
MaxOutputs == 3
MaxReal == 2
Coords == {-1, 2}
\* numeric literals in function bodies (also used as exponents)
Literals == {2}
\* declared input arities
Arities == {1, 2}

----------------------------------------------------------------------------
(* Integer helpers.                                                        *)

RECURSIVE IPow(_, _)
\* base ** e for an integer exponent e >= 0
IPow(base, e) == IF e = 0 THEN 1 ELSE base * IPow(base, e - 1)

\* the elements of a sequence
Range(s) == {s[i] : i \in 1..Len(s)}

\* np.zeros(n) / np.zeros((m, n))
Zeros(n) == [i \in 1..n |-> 0]
Zeros2(m, n) == [k \in 1..m |-> Zeros(n)]

----------------------------------------------------------------------------
(* Adjoint values.  An adjoint is n + lk * log(lb); lb = 1 (log 1 = 0)     *)
(* means there is no logarithmic part.  For lb <= 0 numpy gives nan or     *)
(* -inf (with a warning, not an exception): the record keeps the base.     *)

Z(n) == [n |-> n, lk |-> 0, lb |-> 1]

\* k * a for a number k
Scale(k, a) == [n |-> k * a.n, lk |-> k * a.lk, lb |-> a.lb]

\* (c * np.log(base)) * a, for an adjoint a without logarithmic part
LogTimes(c, base, a) ==
    IF base = 1 \/ (base > 1 /\ c * a.n = 0) THEN Z(0)
    ELSE [n |-> 0, lk |-> c * a.n, lb |-> base]

\* a + b
DAdd(a, b) ==
    CASE b.lb = 1 -> [n |-> a.n + b.n, lk |-> a.lk, lb |-> a.lb]
      [] a.lb = 1 -> [n |-> a.n + b.n, lk |-> b.lk, lb |-> b.lb]
      [] a.lb = b.lb -> [n |-> a.n + b.n, lk |-> a.lk + b.lk, lb |-> a.lb]

----------------------------------------------------------------------------
(* Operands as Python sees them.                                           *)

Num(c) == [k |-> "num", i |-> c]
Slot(i) == [k |-> "slot", i |-> i]

----------------------------------------------------------------------------
(* rNode: the nodes of the reverse-mode computation graph.  A node is      *)
(* identified by its position in the heap.  st is the pair of the heap     *)
(* and rNode.increment that node creation reads and writes.                *)

RECURSIVE Digits(_)
\* str(n) for n >= 0, as the sequence of its decimal digits
Digits(n) == IF n < 10 THEN <<n>> ELSE Append(Digits(n \div 10), n % 10)

RECURSIVE ParseInt(_)
\* int(s) for a sequence of decimal digits
ParseInt(s) ==
    IF Len(s) = 0 THEN 0
    ELSE 10 * ParseInt(SubSeq(s, 1, Len(s) - 1)) + s[Len(s)]

\* 'v' + str(rNode.increment)
NodeName(inc) == <<"v">> \o Digits(inc)

\* int(node.name[1:])
NameIndex(name) == ParseInt(Tail(name))

\* lambda: None
NoRule == [rule |-> "none", self |-> 0, other |-> 0]

\* a faulty rNode.__init__ that advances the counter before it names the node
rNode_CountsFirst(st, v, parents, oper) ==
    [heap |-> Append(st.heap,
                     [val |-> v, der |-> Z(0), backward_func |-> NoRule,
                      oper |-> oper, parents |-> parents,
                      name |-> NodeName(st.increment + 1)]),
     increment |-> st.increment + 1]

\* rNode.__init__: the new node is heap[Len(heap)]
rNode(st, v, parents, oper) ==
    [heap |-> Append(st.heap,
                     [val |-> v, der |-> Z(0), backward_func |-> NoRule,
                      oper |-> oper, parents |-> parents,
                      name |-> NodeName(st.increment)]),
     increment |-> st.increment + 1]

\* isinstance(other, (int, float, rNode))
NumOrNode(other) == other.k \in {"num", "node"}

\* raise TypeError: nothing was created
TypeErr(st) ==
    [heap |-> st.heap, increment |-> st.increment, out |-> 0, err |-> "TypeError"]

\* if isinstance(other, (int, float)): other = rNode(other)
Promote(st, other) == IF other.k = "num" THEN rNode(st, other.i, {}, "") ELSE st

\* the node `other` names after Promote
Promoted(st, other) == IF other.k = "num" THEN Len(st.heap) + 1 ELSE other.i

\* res = rNode(v, (self, other), oper); res.backward_func = _backward_fn
Result(st, v, self, other, oper, rule) ==
    LET s2 == rNode(st, v, {self, other}, oper)
        id == Len(s2.heap)
    IN  [heap |-> [s2.heap EXCEPT ![id].backward_func =
                       [rule |-> rule, self |-> self, other |-> other]],
         increment |-> s2.increment, out |-> id, err |-> "none"]

\* rNode.__add__
add(st, self, other) ==
    IF ~NumOrNode(other) THEN TypeErr(st)
    ELSE LET s1 == Promote(st, other)
             o == Promoted(st, other)
         IN  Result(s1, s1.heap[self].val + s1.heap[o].val, self, o, "+", "add")

\* rNode.__radd__
radd(st, self, other) == add(st, self, other)

\* rNode.__sub__
sub(st, self, other) ==
    IF ~NumOrNode(other) THEN TypeErr(st)
    ELSE LET s1 == Promote(st, other)
             o == Promoted(st, other)
         IN  Result(s1, s1.heap[self].val - s1.heap[o].val, self, o, "-", "sub")

\* a faulty rNode.__rsub__ that creates the result before the node for
\* the number, which it names as a parent ahead of its creation
rsub_LeafAfterResult(st, self, other) ==
    IF other.k # "num" THEN TypeErr(st)
    ELSE LET r == Result(st, other.i - st.heap[self].val, self,
                         Len(st.heap) + 2, "-", "rsub")
             s2 == rNode(r, other.i, {}, "")
         IN  [heap |-> s2.heap, increment |-> s2.increment, out |-> r.out,
              err |-> "none"]

\* rNode.__rsub__
rsub(st, self, other) ==
    IF other.k # "num" THEN TypeErr(st)
    ELSE LET s1 == rNode(st, other.i, {}, "")
             o == Len(s1.heap)
         IN  Result(s1, s1.heap[o].val - s1.heap[self].val, self, o, "-", "rsub")

\* rNode.__mul__
mul(st, self, other) ==
    IF ~NumOrNode(other) THEN TypeErr(st)
    ELSE LET s1 == Promote(st, other)
             o == Promoted(st, other)
         IN  Result(s1, s1.heap[self].val * s1.heap[o].val, self, o, "x", "mul")

\* rNode.__rmul__
rmul(st, self, other) == mul(st, self, other)

\* rNode.__neg__
neg(st, self) == mul(st, self, Num(-1))

\* a ** e on Python numbers, where it is defined: an int for e >= 0, the
\* float the application stands for otherwise
Power(a, e) == IF e >= 0 THEN IPow(a, e) ELSE [fn |-> "pow", of |-> <<a, e>>]

\* a / b on Python numbers, where it is defined: a float
Quotient(a, b) == [fn |-> "div", of |-> <<a, b>>]

\* Python raises ZeroDivisionError: what was created before stays
ZeroDiv(st) ==
    [heap |-> st.heap, increment |-> st.increment, out |-> 0,
     err |-> "ZeroDivisionError"]

\* rNode.__pow__
pow(st, self, other) ==
    IF ~NumOrNode(other) THEN TypeErr(st)
    ELSE LET s1 == Promote(st, other)
             o == Promoted(st, other)
         IN  IF s1.heap[self].val = 0 /\ s1.heap[o].val < 0 THEN ZeroDiv(s1)
             ELSE Result(s1, Power(s1.heap[self].val, s1.heap[o].val),
                         self, o, "^", "pow")

\* rNode.__rpow__: the base is a number and gets no node of its own
rpow(st, self, other) ==
    IF other.k # "num" THEN TypeErr(st)
    ELSE IF other.i = 0 /\ st.heap[self].val < 0 THEN ZeroDiv(st)
    ELSE LET s2 == rNode(st, Power(other.i, st.heap[self].val), {self}, "^")
             id == Len(s2.heap)
         IN  [heap |-> [s2.heap EXCEPT ![id].backward_func =
                            [rule |-> "rpow", self |-> self, other |-> self,
                             base |-> other.i]],
              increment |-> s2.increment, out |-> id, err |-> "none"]

\* a faulty rNode.__truediv__ that takes a DualNumber for a number
truediv_AcceptsDual(st, self, other) ==
    IF other.k \notin {"num", "node", "dual"} THEN TypeErr(st)
    ELSE LET s1 == IF other.k = "node" THEN st
                   ELSE IF other.k = "num" THEN rNode(st, other.i, {}, "")
                   ELSE rNode(st, other.i.real, {}, "")
             o == IF other.k = "node" THEN other.i ELSE Len(s1.heap)
         IN  IF s1.heap[o].val = 0 THEN ZeroDiv(s1)
             ELSE Result(s1, Quotient(s1.heap[self].val, s1.heap[o].val),
                         self, o, "/", "truediv")

\* rNode.__truediv__
truediv(st, self, other) ==
    IF ~NumOrNode(other) THEN TypeErr(st)
    ELSE LET s1 == Promote(st, other)
             o == Promoted(st, other)
         IN  IF s1.heap[o].val = 0 THEN ZeroDiv(s1)
             ELSE Result(s1, Quotient(s1.heap[self].val, s1.heap[o].val),
                         self, o, "/", "truediv")

\* a faulty rNode.__rtruediv__ that makes no node for the number
rtruediv_NoLeaf(st, self, other) ==
    IF other.k # "num" THEN TypeErr(st)
    ELSE IF st.heap[self].val = 0 THEN ZeroDiv(st)
    ELSE LET s2 == rNode(st, Quotient(other.i, st.heap[self].val), {self}, "/")
             id == Len(s2.heap)
         IN  [heap |-> [s2.heap EXCEPT ![id].backward_func =
                            [rule |-> "rtruediv", self |-> self, other |-> self]],
              increment |-> s2.increment, out |-> id, err |-> "none"]

\* rNode.__rtruediv__
rtruediv(st, self, other) ==
    IF other.k # "num" THEN TypeErr(st)
    ELSE LET s1 == rNode(st, other.i, {}, "")
             o == Len(s1.heap)
         IN  IF s1.heap[self].val = 0 THEN ZeroDiv(s1)
             ELSE Result(s1, Quotient(s1.heap[o].val, s1.heap[self].val),
                         self, o, "/", "rtruediv")

\* a faulty update that assigns the contribution: node.der = d
Accumulate_Overwrite(h, node, d) == [h EXCEPT ![node].der = d]

\* node.der += d
Accumulate(h, node, d) == [h EXCEPT ![node].der = DAdd(h[node].der, d)]

\* node.backward_func(): the closure _backward_fn of the operator that made
\* the node, its two statements in order
backward_func(h, node) ==
    LET f == h[node].backward_func
        s == f.self
        o == f.other
    IN  CASE f.rule = "none" -> h
          [] f.rule = "add" ->
                LET h1 == Accumulate(h, s, Scale(1, h[node].der))
                IN  Accumulate(h1, o, Scale(1, h1[node].der))
          [] f.rule = "sub" ->
                LET h1 == Accumulate(h, s, Scale(1, h[node].der))
                IN  Accumulate(h1, o, Scale(-1, h1[node].der))
          [] f.rule = "rsub" ->
                LET h1 == Accumulate(h, s, Scale(-1, h[node].der))
                IN  Accumulate(h1, o, Scale(1, h1[node].der))
          [] f.rule = "mul" ->
                LET h1 == Accumulate(h, s, Scale(h[o].val, h[node].der))
                IN  Accumulate(h1, o, Scale(h1[s].val, h1[node].der))
          [] f.rule = "pow" ->
                LET h1 == Accumulate(h, s,
                              Scale(h[o].val * IPow(h[s].val, h[o].val - 1),
                                    h[node].der))
                IN  Accumulate(h1, o,
                        LogTimes(IPow(h1[s].val, h1[o].val), h1[s].val,
                                 h1[node].der))

----------------------------------------------------------------------------
(* Traversals.  node.parents is a Python set: the order a for loop visits  *)
(* it in is not specified.  Every operator passes one or two parents, so   *)
(* an order is a choice, per node, between the two ways to list a pair:    *)
(* ord[n] = TRUE lists the parent of larger identity first.                *)

\* the ways to iterate the parent sets of the heap
Orders(h) ==
    {ord \in [1..Len(h) -> BOOLEAN] :
        \A n \in 1..Len(h) : Cardinality(h[n].parents) < 2 => ~ord[n]}

\* for parent_node in node.parents
ParentSeq(h, ord, node) ==
    LET ps == h[node].parents
        lo == CHOOSE x \in ps : \A y \in ps : x <= y
        hi == CHOOSE x \in ps : \A y \in ps : y <= x
    IN  IF ps = {} THEN <<>>
        ELSE IF lo = hi THEN <<lo>>
        ELSE IF ord[node] THEN <<hi, lo>> ELSE <<lo, hi>>

RECURSIVE toposort(_, _, _, _)
RECURSIVE toposort_each(_, _, _, _)
\* a faulty toposort that appends the node before it visits the parents
toposort_PreOrder(h, ord, node, acc) ==
    IF node \in acc.visited_nodes THEN acc
    ELSE toposort_each(h, ord, ParentSeq(h, ord, node),
                       [acc EXCEPT !.visited_nodes = @ \cup {node},
                                   !.topo_sorted = Append(@, node)])

\* a faulty toposort whose visited test compares the values of the nodes
toposort_VisitedByValue(h, ord, node, acc) ==
    IF \E v \in acc.visited_nodes : h[v].val = h[node].val THEN acc
    ELSE LET a1 == [acc EXCEPT !.visited_nodes = @ \cup {node}]
             a2 == toposort_each(h, ord, ParentSeq(h, ord, node), a1)
         IN  [a2 EXCEPT !.topo_sorted = Append(@, node)]

\* rNode._sort_nodes.toposort; acc is (visited_nodes, topo_sorted)
toposort(h, ord, node, acc) ==
    IF node \in acc.visited_nodes THEN acc
    ELSE LET a1 == [acc EXCEPT !.visited_nodes = @ \cup {node}]
             a2 == toposort_each(h, ord, ParentSeq(h, ord, node), a1)
         IN  [a2 EXCEPT !.topo_sorted = Append(@, node)]

\* a faulty loop of toposort that returns after the first parent
toposort_each_FirstParentOnly(h, ord, ps, acc) ==
    IF ps = <<>> THEN acc
    ELSE toposort(h, ord, Head(ps), acc)

\* the for loop of toposort over the parents
toposort_each(h, ord, ps, acc) ==
    IF ps = <<>> THEN acc
    ELSE toposort_each(h, ord, Tail(ps), toposort(h, ord, Head(ps), acc))

\* rNode._sort_nodes
sort_nodes(h, ord, self) ==
    toposort(h, ord, self, [visited_nodes |-> {}, topo_sorted |-> <<>>]).topo_sorted

RECURSIVE build(_, _, _, _)
RECURSIVE build_each(_, _, _, _, _)
\* a faulty build that adds the edge inside the recursive call, after the
\* test of the set of nodes, and so no edge to a parent already seen
build_each_SeenParentSkipped(h, ord, node, ps, acc) ==
    IF ps = <<>> THEN acc
    ELSE build_each(h, ord, node, Tail(ps),
                    build(h, ord, Head(ps),
                          IF Head(ps) \in acc.nodes THEN acc
                          ELSE [acc EXCEPT !.edges = @ \cup {<<Head(ps), node>>}]))

\* rNode.graph_object.build; acc is (nodes, edges)
build(h, ord, node, acc) ==
    IF node \in acc.nodes THEN acc
    ELSE build_each(h, ord, node, ParentSeq(h, ord, node),
                    [acc EXCEPT !.nodes = @ \cup {node}])

\* the for loop of build over the parents
build_each(h, ord, node, ps, acc) ==
    IF ps = <<>> THEN acc
    ELSE build_each(h, ord, node, Tail(ps),
                    build(h, ord, Head(ps),
                          [acc EXCEPT !.edges = @ \cup {<<Head(ps), node>>}]))

\* rNode.graph_object
graph_object(h, ord, self) == build(h, ord, self, [nodes |-> {}, edges |-> {}])

----------------------------------------------------------------------------
(* rNode.backward.  The frame of a pass: its root, the sorted nodes, the   *)
(* position i of the loop in them (it walks them from the last to the      *)
(* first), the row being filled and the nodes whose backward_func ran.     *)

NoBackward ==
    [root |-> 0, k |-> 0, topo_order |-> <<>>, i |-> 0, jacobian_row |-> <<>>,
     invoked |-> <<>>, running |-> FALSE]

\* a faulty start of the pass that leaves the adjoints of the sorted nodes
\* as the passes before it left them
backward_init_NoZero(h, ord, self, num_inputs) ==
    LET topo_order == sort_nodes(h, ord, self)
    IN  [heap |-> [h EXCEPT ![self].der = Z(1)],
         bw |-> [root |-> self, k |-> 0, topo_order |-> topo_order,
                 i |-> Len(topo_order),
                 jacobian_row |-> [j \in 1..num_inputs |-> Z(0)],
                 invoked |-> <<>>, running |-> TRUE]]

\* a faulty start of the pass that zeroes the adjoint of every node there
\* is, sorted or not
backward_init_ZeroesAll(h, ord, self, num_inputs) ==
    LET topo_order == sort_nodes(h, ord, self)
        zeroed == [n \in 1..Len(h) |-> [h[n] EXCEPT !.der = Z(0)]]
    IN  [heap |-> [zeroed EXCEPT ![self].der = Z(1)],
         bw |-> [root |-> self, k |-> 0, topo_order |-> topo_order,
                 i |-> Len(topo_order),
                 jacobian_row |-> [j \in 1..num_inputs |-> Z(0)],
                 invoked |-> <<>>, running |-> TRUE]]

\* rNode.backward, lines 469-477: the sort, the zeroing of the adjoints of
\* the sorted nodes, the seed and the empty row
backward_init(h, ord, self, num_inputs) ==
    LET topo_order == sort_nodes(h, ord, self)
        zeroed == [n \in 1..Len(h) |->
                      IF n \in Range(topo_order)
                      THEN [h[n] EXCEPT !.der = Z(0)] ELSE h[n]]
    IN  [heap |-> [zeroed EXCEPT ![self].der = Z(1)],
         bw |-> [root |-> self, k |-> 0, topo_order |-> topo_order,
                 i |-> Len(topo_order),
                 jacobian_row |-> [j \in 1..num_inputs |-> Z(0)],
                 invoked |-> <<>>, running |-> TRUE]]

\* a faulty loop that walks topo_order instead of reversed(topo_order)
backward_iter_Unreversed(h, b, num_inputs) ==
    LET node == b.topo_order[Len(b.topo_order) - b.i + 1]
        idx == NameIndex(h[node].name)
    IN  [heap |-> backward_func(h, node),
         bw |-> [b EXCEPT
                   !.jacobian_row = IF idx < num_inputs
                                    THEN [@ EXCEPT ![idx + 1] = h[node].der]
                                    ELSE @,
                   !.i = @ - 1,
                   !.invoked = Append(@, node)]]

\* rNode.backward, lines 479-482: one pass of the loop over reversed(topo_order)
backward_iter(h, b, num_inputs) ==
    LET node == b.topo_order[b.i]
        idx == NameIndex(h[node].name)
    IN  [heap |-> backward_func(h, node),
         bw |-> [b EXCEPT
                   !.jacobian_row = IF idx < num_inputs
                                    THEN [@ EXCEPT ![idx + 1] = h[node].der]
                                    ELSE @,
                   !.i = @ - 1,
                   !.invoked = Append(@, node)]]

RECURSIVE backward_loop(_, _, _)
\* the loop of rNode.backward run to its end
backward_loop(h, b, num_inputs) ==
    IF b.i = 0 THEN [heap |-> h, bw |-> b]
    ELSE LET s == backward_iter(h, b, num_inputs)
         IN  backward_loop(s.heap, s.bw, num_inputs)

\* rNode.backward as a whole: the heap it leaves and the row it returns
backward(h, ord, self, num_inputs) ==
    LET b == backward_init(h, ord, self, num_inputs)
        e == backward_loop(b.heap, b.bw, num_inputs)
    IN  [heap |-> e.heap, jacobian_row |-> e.bw.jacobian_row]

----------------------------------------------------------------------------
(* DualNumber: forward-mode arithmetic.  `other` is a number (Num) or a    *)
(* DualNumber (Dual).                                                      *)

DualNumber(real, dual) == [real |-> real, dual |-> dual]

Dual(z) == [k |-> "dual", i |-> z]

\* isinstance(other, (*self._supported_scalars, DualNumber))
NumOrDual(other) == other.k \in {"num", "dual"}

\* the result of a DualNumber operator: the value, or the error raised
Ok(z) == [out |-> z, err |-> "none"]
DualTypeErr == [out |-> DualNumber(0, 0), err |-> "TypeError"]

\* DualNumber.__neg__
dneg(self) == DualNumber(-self.real, -self.dual)

\* a faulty DualNumber.__add__ that adds a scalar to the dual part as well
dadd_ScalarIntoDual(self, other) ==
    IF ~NumOrDual(other) THEN DualTypeErr
    ELSE IF other.k = "num"
         THEN Ok(DualNumber(other.i + self.real, self.dual + other.i))
    ELSE Ok(DualNumber(self.real + other.i.real, self.dual + other.i.dual))

\* DualNumber.__add__
dadd(self, other) ==
    IF ~NumOrDual(other) THEN DualTypeErr
    ELSE IF other.k = "num" THEN Ok(DualNumber(other.i + self.real, self.dual))
    ELSE Ok(DualNumber(self.real + other.i.real, self.dual + other.i.dual))

\* a faulty DualNumber.__mul__ whose product rule lacks the second term
dmul_HalfProduct(self, other) ==
    IF ~NumOrDual(other) THEN DualTypeErr
    ELSE IF other.k = "num"
         THEN Ok(DualNumber(other.i * self.real, other.i * self.dual))
    ELSE Ok(DualNumber(self.real * other.i.real, self.real * other.i.dual))

\* DualNumber.__mul__
dmul(self, other) ==
    IF ~NumOrDual(other) THEN DualTypeErr
    ELSE IF other.k = "num"
         THEN Ok(DualNumber(other.i * self.real, other.i * self.dual))
    ELSE Ok(DualNumber(self.real * other.i.real,
                       self.real * other.i.dual + self.dual * other.i.real))

\* DualNumber.__radd__
dradd(self, other) == dadd(self, other)

\* DualNumber.__rmul__
drmul(self, other) == dmul(self, other)

\* other * (-1), as Python evaluates it for a number or a DualNumber
TimesMinusOne(other) ==
    IF other.k = "num" THEN Num(other.i * (-1))
    ELSE IF other.k = "dual" THEN Dual(dmul(other.i, Num(-1)).out)
    ELSE other

\* DualNumber.__sub__
dsub(self, other) == dadd(self, TimesMinusOne(other))

\* a faulty DualNumber.__rsub__ that negates the real part only
drsub_KeepsDual(self, other) ==
    IF other.k # "num" THEN DualTypeErr
    ELSE Ok(DualNumber(other.i - self.real, self.dual))

\* DualNumber.__rsub__
drsub(self, other) == dadd(drmul(self, Num(-1)).out, other)

\* DualNumber.__pow__, for a numeric exponent >= 1
dpow(self, other) ==
    IF ~NumOrDual(other) THEN DualTypeErr
    ELSE Ok(DualNumber(IPow(self.real, other.i),
                       other.i * IPow(self.real, other.i - 1) * self.dual))

----------------------------------------------------------------------------
(* operators.py: the elementary functions with a restricted domain.  The   *)
(* argument x is a number (Num), a DualNumber (Dual) or an rNode (node);   *)
(* anything else stands for an object of another type.  The numbers numpy  *)
(* computes are kept as the applications they are.                         *)

\* np.<fn>(a), and the derivative expression built from it
Np(fn, a) == [fn |-> fn, of |-> a]

\* a reference to the node at heap position i
Node(i) == [k |-> "node", i |-> i]

\* isinstance(x, (*_supported_scalars, DualNumber, rNode))
Supported(x) == x.k \in {"num", "dual", "node"}

\* raise err: nothing was created
Raised(st, err) ==
    [heap |-> st.heap, increment |-> st.increment, out |-> Num(0), err |-> err]

\* return out, no node created
Returned(st, out) ==
    [heap |-> st.heap, increment |-> st.increment, out |-> out, err |-> "none"]

\* res = rNode(v, (x,), oper); res.backward_func = _backward_fn; return res
Unary(st, v, x, oper) ==
    LET s2 == rNode(st, v, {x}, oper)
        id == Len(s2.heap)
    IN  [heap |-> [s2.heap EXCEPT ![id].backward_func =
                       [rule |-> oper, self |-> x, other |-> x]],
         increment |-> s2.increment, out |-> Node(id), err |-> "none"]

\* a faulty log whose rNode branch creates the result before it tests the
\* domain
log_NodeBeforeDomain(st, x) ==
    IF ~Supported(x) THEN Raised(st, "TypeError")
    ELSE IF x.k = "num"
         THEN IF x.i <= 0 THEN Raised(st, "ValueError")
              ELSE Returned(st, Num(Np("log", x.i)))
    ELSE IF x.k = "node"
         THEN LET r == Unary(st, Np("log", st.heap[x.i].val), x.i, "log")
              IN  IF st.heap[x.i].val <= 0 THEN [r EXCEPT !.err = "ValueError"]
                  ELSE r
    ELSE IF x.i.real <= 0 THEN Raised(st, "ValueError")
         ELSE Returned(st, Dual(DualNumber(Np("log", x.i.real),
                                           Np("dlog", <<x.i.dual, x.i.real>>))))

\* operators.log
log(st, x) ==
    IF ~Supported(x) THEN Raised(st, "TypeError")
    ELSE IF x.k = "num"
         THEN IF x.i <= 0 THEN Raised(st, "ValueError")
              ELSE Returned(st, Num(Np("log", x.i)))
    ELSE IF x.k = "node"
         THEN IF st.heap[x.i].val <= 0 THEN Raised(st, "ValueError")
              ELSE Unary(st, Np("log", st.heap[x.i].val), x.i, "log")
    ELSE IF x.i.real <= 0 THEN Raised(st, "ValueError")
         ELSE Returned(st, Dual(DualNumber(Np("log", x.i.real),
                                           Np("dlog", <<x.i.dual, x.i.real>>))))

\* operators.log_base
log_base(st, x, base) ==
    IF ~Supported(x) THEN Raised(st, "TypeError")
    ELSE IF base.k # "num" THEN Raised(st, "TypeError")
    ELSE IF x.k = "num"
         THEN IF x.i <= 0 THEN Raised(st, "ValueError")
              ELSE Returned(st, Num(Np("log_base", <<x.i, base.i>>)))
    ELSE IF x.k = "node"
         THEN IF st.heap[x.i].val <= 0 THEN Raised(st, "ValueError")
              ELSE Unary(st, Np("log_base", <<st.heap[x.i].val, base.i>>), x.i,
                         "log_base")
    ELSE IF x.i.real <= 0 THEN Raised(st, "ValueError")
         ELSE Returned(st, Dual(DualNumber(Np("log_base", <<x.i.real, base.i>>),
                                           Np("dlog_base", <<x.i.dual, x.i.real, base.i>>))))

\* operators.arcsin
arcsin(st, x) ==
    IF ~Supported(x) THEN Raised(st, "TypeError")
    ELSE IF x.k = "num"
         THEN IF x.i < -1 \/ x.i > 1 THEN Raised(st, "ValueError")
              ELSE Returned(st, Num(Np("arcsin", x.i)))
    ELSE IF x.k = "node"
         THEN IF st.heap[x.i].val < -1 \/ st.heap[x.i].val > 1
              THEN Raised(st, "ValueError")
              ELSE Unary(st, Np("arcsin", st.heap[x.i].val), x.i, "arcsin")
    ELSE IF x.i.real < -1 \/ x.i.real > 1 THEN Raised(st, "ValueError")
         ELSE Returned(st, Dual(DualNumber(Np("arcsin", x.i.real),
                                           Np("darcsin", <<x.i.dual, x.i.real>>))))

\* operators.arccos
arccos(st, x) ==
    IF ~Supported(x) THEN Raised(st, "TypeError")
    ELSE IF x.k = "num"
         THEN IF x.i < -1 \/ x.i > 1 THEN Raised(st, "ValueError")
              ELSE Returned(st, Num(Np("arccos", x.i)))
    ELSE IF x.k = "node"
         THEN IF st.heap[x.i].val < -1 \/ st.heap[x.i].val > 1
              THEN Raised(st, "ValueError")
              ELSE Unary(st, Np("arccos", st.heap[x.i].val), x.i, "arccos")
    ELSE IF x.i.real < -1 \/ x.i.real > 1 THEN Raised(st, "ValueError")
         ELSE Returned(st, Dual(DualNumber(Np("arccos", x.i.real),
                                           Np("darccos", <<x.i.dual, x.i.real>>))))

\* a faulty sqrt whose rNode branch refuses 0 as well
sqrt_NodeRejectsZero(st, x) ==
    IF ~Supported(x) THEN Raised(st, "TypeError")
    ELSE IF x.k = "num"
         THEN IF x.i < 0 THEN Raised(st, "ValueError")
              ELSE Returned(st, Num(Np("sqrt", x.i)))
    ELSE IF x.k = "node"
         THEN IF st.heap[x.i].val <= 0 THEN Raised(st, "ValueError")
              ELSE Unary(st, Np("sqrt", st.heap[x.i].val), x.i, "sqrt")
    ELSE IF x.i.real < 0 THEN Raised(st, "ValueError")
         ELSE Returned(st, Dual(DualNumber(Np("sqrt", x.i.real),
                                           Np("dsqrt", <<x.i.dual, x.i.real>>))))

\* operators.sqrt
sqrt(st, x) ==
    IF ~Supported(x) THEN Raised(st, "TypeError")
    ELSE IF x.k = "num"
         THEN IF x.i < 0 THEN Raised(st, "ValueError")
              ELSE Returned(st, Num(Np("sqrt", x.i)))
    ELSE IF x.k = "node"
         THEN IF st.heap[x.i].val < 0 THEN Raised(st, "ValueError")
              ELSE Unary(st, Np("sqrt", st.heap[x.i].val), x.i, "sqrt")
    ELSE IF x.i.real < 0 THEN Raised(st, "ValueError")
         ELSE Returned(st, Dual(DualNumber(Np("sqrt", x.i.real),
                                           Np("dsqrt", <<x.i.dual, x.i.real>>))))

----------------------------------------------------------------------------
(* User functions.  A callable is [body, ret, bare]: body is the sequence  *)
(* of operator applications [op, a, b] on slots and literals, ret lists    *)
(* the slots it returns, and bare says that it returns ret[1] itself       *)
(* rather than a tuple.  Slots 1..n are the parameters.                    *)

\* the expressions one more line of a body can compute from `refs` slots
Instrs(refs) ==
    {[op |-> o, a |-> Slot(i), b |-> Slot(j)] :
        o \in {"+", "-", "*"}, i \in 1..refs, j \in 1..refs}
    \cup {[op |-> o, a |-> Slot(i), b |-> Num(c)] :
        o \in {"+", "-", "*", "**"}, i \in 1..refs, c \in Literals}
    \cup {[op |-> o, a |-> Num(c), b |-> Slot(i)] :
        o \in {"+", "-", "*"}, i \in 1..refs, c \in Literals}
    \cup {[op |-> "neg", a |-> Slot(i), b |-> Slot(i)] : i \in 1..refs}

RECURSIVE Bodies(_, _)
\* the bodies of k lines over n parameters
Bodies(n, k) ==
    IF k = 0 THEN {<<>>}
    ELSE {Append(b, ins) : b \in Bodies(n, k - 1), ins \in Instrs(n + k - 1)}

\* the slots an instruction reads
Reads(ins) == {x.i : x \in {y \in {ins.a, ins.b} : y.k = "slot"}}

\* no line of the body is dead: each computed slot is read later or returned
Live(n, body, ret) ==
    \A k \in 1..Len(body) :
        \/ n + k \in Range(ret)
        \/ \E j \in (k + 1)..Len(body) : n + k \in Reads(body[j])

\* the callables of n parameters and at most `ops` lines: one that returns
\* a bare value returns its last line (or a parameter, if it has no line),
\* one that returns a 2-tuple returns every line it computes
Callables(n, ops) ==
    UNION {
        {[body |-> b, ret |-> <<s>>, bare |-> TRUE] :
            s \in {t \in 1..(n + Len(b)) : Live(n, b, <<t>>)}}
        \cup {[body |-> b, ret |-> r, bare |-> FALSE] :
            r \in {t \in [1..2 -> 1..(n + Len(b))] :
                      (n + 1)..(n + Len(b)) \subseteq Range(t)}}
        : b \in UNION {Bodies(n, k) : k \in 0..ops}}

\* Func.__init__, declaring the arity the callable has
Func(function, num_inputs) ==
    [func |-> function, num_inputs |-> num_inputs,
     num_outputs |-> Len(function.ret)]

\* the points of n coordinates, no two of them equal
Points(n) == {x \in [1..n -> Coords] : \A i, j \in 1..n : x[i] = x[j] => i = j}

\* the value a slot or literal operand has in an environment
Operand(env, x, kind) == IF x.k = "slot" THEN [k |-> kind, i |-> env[x.i]] ELSE x

\* one line of the body on Graph Nodes, as Python dispatches the operator:
\* the left operand's method, or the reflected method of the right operand
\* when the left operand is a number
ApplyNode(st, env, ins) ==
    LET x == Operand(env, ins.a, "node")
        y == Operand(env, ins.b, "node")
    IN  CASE ins.op = "neg" -> neg(st, x.i)
          [] ins.op = "+" -> IF x.k = "node" THEN add(st, x.i, y) ELSE radd(st, y.i, x)
          [] ins.op = "-" -> IF x.k = "node" THEN sub(st, x.i, y) ELSE rsub(st, y.i, x)
          [] ins.op = "*" -> IF x.k = "node" THEN mul(st, x.i, y) ELSE rmul(st, y.i, x)
          [] ins.op = "**" -> pow(st, x.i, y)

\* one line of the body on DualNumbers
ApplyDual(env, ins) ==
    LET x == Operand(env, ins.a, "dual")
        y == Operand(env, ins.b, "dual")
    IN  CASE ins.op = "neg" -> Ok(dneg(x.i))
          [] ins.op = "+" -> IF x.k = "dual" THEN dadd(x.i, y) ELSE dradd(y.i, x)
          [] ins.op = "-" -> IF x.k = "dual" THEN dsub(x.i, y) ELSE drsub(y.i, x)
          [] ins.op = "*" -> IF x.k = "dual" THEN dmul(x.i, y) ELSE drmul(y.i, x)
          [] ins.op = "**" -> dpow(x.i, y)

\* one line of the body on plain numbers
ApplyNum(env, ins) ==
    LET x == Operand(env, ins.a, "num").i
        y == Operand(env, ins.b, "num").i
    IN  CASE ins.op = "neg" -> -x
          [] ins.op = "+" -> x + y
          [] ins.op = "-" -> x - y
          [] ins.op = "*" -> x * y
          [] ins.op = "**" -> IPow(x, y)

RECURSIVE RunDual(_, _)
\* self.func(*zs) on DualNumbers: the slots after the body has run
RunDual(body, env) ==
    IF body = <<>> THEN env
    ELSE RunDual(Tail(body), Append(env, ApplyDual(env, Head(body)).out))

RECURSIVE RunNum(_, _)
\* self.func(*point) on plain numbers: the slots after the body has run
RunNum(body, env) ==
    IF body = <<>> THEN env
    ELSE RunNum(Tail(body), Append(env, ApplyNum(env, Head(body))))

\* the objects a line creates on DualNumbers: its result, and the negated
\* operand that __sub__ and __rsub__ build first
DualsMade(ins) ==
    IF ins.op = "-" /\ (ins.a.k = "num" \/ ins.b.k = "slot") THEN 2 ELSE 1

RECURSIVE SumSeq(_)
SumSeq(s) == IF s = <<>> THEN 0 ELSE Head(s) + SumSeq(Tail(s))

----------------------------------------------------------------------------
(* Func: the pure parts of the orchestrator.                               *)

\* a numpy array of numbers / the bare scalar v[1]
Array(v) == [arr |-> TRUE, v |-> v]
Scalar(x) == [arr |-> FALSE, v |-> <<x>>]

\* a faulty pass that seeds the first input whatever the column
forward_column_FirstSeed(F, point, i, jac, v) ==
    LET n == F.num_inputs
        m == F.num_outputs
        seed_vector == [j \in 1..n |-> IF j = 1 THEN 1 ELSE 0]
        dzs == [j \in 1..n |-> DualNumber(point[j], seed_vector[j])]
        env == RunDual(F.func.body, dzs)
        out == [k \in 1..Len(F.func.ret) |-> env[F.func.ret[k]]]
    IN  IF F.func.bare
        THEN IF m # 1 THEN [jacobian |-> jac, val |-> v, err |-> "AssertionError"]
             ELSE [jacobian |-> [k \in 1..m |-> [jac[k] EXCEPT ![i] = Z(out[1].dual)]],
                   val |-> [v EXCEPT ![1] = out[1].real], err |-> "none"]
        ELSE IF Len(out) # m THEN [jacobian |-> jac, val |-> v, err |-> "AssertionError"]
             ELSE [jacobian |-> [k \in 1..m |-> [jac[k] EXCEPT ![i] = Z(out[k].dual)]],
                   val |-> [k \in 1..m |-> out[k].real], err |-> "none"]

\* jacobian[:, i] and val after column i of Func._forward ran the function
\* on the seeded DualNumbers; err is the failed assertion, if any
forward_column(F, point, i, jac, v) ==
    LET n == F.num_inputs
        m == F.num_outputs
        seed_vector == [j \in 1..n |-> IF j = i THEN 1 ELSE 0]
        dzs == [j \in 1..n |-> DualNumber(point[j], seed_vector[j])]
        env == RunDual(F.func.body, dzs)
        out == [k \in 1..Len(F.func.ret) |-> env[F.func.ret[k]]]
    IN  IF F.func.bare
        THEN IF m # 1 THEN [jacobian |-> jac, val |-> v, err |-> "AssertionError"]
             ELSE [jacobian |-> [k \in 1..m |-> [jac[k] EXCEPT ![i] = Z(out[1].dual)]],
                   val |-> [v EXCEPT ![1] = out[1].real], err |-> "none"]
        ELSE IF Len(out) # m THEN [jacobian |-> jac, val |-> v, err |-> "AssertionError"]
             ELSE [jacobian |-> [k \in 1..m |-> [jac[k] EXCEPT ![i] = Z(out[k].dual)]],
                   val |-> [k \in 1..m |-> out[k].real], err |-> "none"]

RECURSIVE forward_from(_, _, _, _, _)
\* the for loop of Func._forward from column i on
forward_from(F, point, i, jac, v) ==
    IF i > F.num_inputs THEN [jacobian |-> jac, val |-> v, err |-> "none"]
    ELSE LET c == forward_column(F, point, i, jac, v)
         IN  IF c.err # "none" THEN c
             ELSE forward_from(F, point, i + 1, c.jacobian, c.val)

\* Func._forward
forward(F, point) ==
    forward_from(F, point, 1,
                 [k \in 1..F.num_outputs |-> [j \in 1..F.num_inputs |-> Z(0)]],
                 Zeros(F.num_outputs))

\* a faulty return format that hands back the matrix whatever its shape
Format_AlwaysMatrix(jac) == [scalar |-> FALSE, m |-> jac]

\* the return format of Func.jacobian: the bare entry of a 1 x 1 jacobian
Format(jac) ==
    IF Len(jac) = 1 /\ Len(jac[1]) = 1
    THEN [scalar |-> TRUE, m |-> <<<<jac[1][1]>>>>]
    ELSE [scalar |-> FALSE, m |-> jac]

\* Func.__call__ past its validation: what the function returns, as it is
\* when num_outputs == 1 and through np.array otherwise (a bare number stays
\* one number either way, a tuple a sequence)
evaluate(F, point) ==
    LET env == RunNum(F.func.body, point)
        out == [k \in 1..Len(F.func.ret) |-> env[F.func.ret[k]]]
    IN  IF F.func.bare THEN Scalar(out[1]) ELSE Array(out)

\* the objects one run of the function on DualNumbers creates
DualsOfRun(F) ==
    F.num_inputs + SumSeq([k \in 1..Len(F.func.body) |-> DualsMade(F.func.body[k])])

----------------------------------------------------------------------------
(* The state machine: a caller holding one Func and one point calls its    *)
(* entry points, one at a time, with that point or one of a wrong length.  *)

NoFrame ==
    [entry |-> "none", point |-> <<>>, feval |-> FALSE, reverse |-> FALSE,
     seed_vector |-> <<>>, graph_direction |-> ""]

NoResult ==
    [kind |-> "none", entry |-> "none", point |-> <<>>, feval |-> FALSE,
     reverse |-> FALSE, seed_vector |-> <<>>, val |-> Array(<<>>),
     jac |-> Format(<<>>), deriv |-> <<>>, nodes |-> {}, edges |-> {}]

\* the arguments a caller passes for the point: it, or a wrong length
Args == {p, SubSeq(p, 1, Len(p) - 1), Append(p, 2)}

\* the state every entry point starts from: the last call's objects are gone
Enter(fr) ==
    /\ frame' = fr
    /\ heap' = <<>>
    /\ zs' = <<>>
    /\ res' = <<>>
    /\ jacobian' = <<>>
    /\ val' = Array(<<>>)
    /\ bw' = NoBackward
    /\ UNCHANGED <<func, p, prev, second>>

\* the outcome of the call of frame fr
Outcome(fr, kind) ==
    [NoResult EXCEPT !.kind = kind, !.entry = fr.entry, !.point = fr.point,
                     !.feval = fr.feval, !.reverse = fr.reverse,
                     !.seed_vector = fr.seed_vector]

\* the running call ends raising `kind`
Raise(kind) ==
    /\ pc' = "idle"
    /\ result' = Outcome(frame, kind)

\* Func.jacobian, lines 206-217: validation and the choice of the mode
jacobian_call(point, feval, reverse) ==
    LET fr == [NoFrame EXCEPT !.entry = "jacobian", !.point = point,
                              !.feval = feval, !.reverse = reverse]
    IN  /\ pc = "idle"
        /\ Enter(fr)
        /\ calls' = 0
        /\ made' = 0
        /\ UNCHANGED increment
        /\ IF Len(point) # func.num_inputs
           THEN /\ pc' = "idle"
                /\ result' = Outcome(fr, "ValueError")
           ELSE /\ pc' = IF reverse THEN "reverse" ELSE "forward"
                /\ result' = NoResult

\* Func._forward, lines 103-105
forward_begin ==
    /\ pc = "forward"
    /\ jacobian' = [k \in 1..func.num_outputs |-> [j \in 1..func.num_inputs |-> Z(0)]]
    /\ val' = Array(Zeros(func.num_outputs))
    /\ pc' = "column"
    /\ UNCHANGED <<func, p, increment, heap, frame, zs, res, bw, calls, made,
                   result, prev, second>>

\* Func._forward, lines 106-126: one pass of the loop over the inputs
forward_step ==
    /\ pc = "column"
    /\ calls < func.num_inputs
    /\ LET c == forward_column(func, frame.point, calls + 1, jacobian, val.v)
       IN  /\ calls' = calls + 1
           /\ made' = made + DualsOfRun(func)
           /\ jacobian' = c.jacobian
           /\ val' = Array(c.val)
           /\ IF c.err # "none" THEN Raise(c.err)
              ELSE /\ pc' = "column"
                   /\ UNCHANGED result
    /\ UNCHANGED <<func, p, increment, heap, frame, zs, res, bw, prev, second>>

\* Func._forward, line 127
forward_return ==
    /\ pc = "column"
    /\ calls = func.num_inputs
    /\ pc' = "format"
    /\ UNCHANGED <<func, p, increment, heap, frame, zs, res, jacobian, val, bw,
                   calls, made, result, prev, second>>

RECURSIVE Wrap(_, _)
\* for p in point: zs.append(rNode(p))
Wrap(st, point) ==
    IF point = <<>> THEN st ELSE Wrap(rNode(st, Head(point), {}, ""), Tail(point))

\* a faulty start of Func._reverse that does not reset rNode.increment
reverse_begin_NoReset ==
    /\ pc = "reverse"
    /\ LET st == Wrap([heap |-> <<>>, increment |-> increment], frame.point)
       IN  /\ heap' = st.heap
           /\ increment' = st.increment
           /\ zs' = [j \in 1..Len(frame.point) |-> j]
           /\ made' = made + Len(frame.point)
    /\ jacobian' = [k \in 1..func.num_outputs |-> [j \in 1..func.num_inputs |-> Z(0)]]
    /\ val' = Array(Zeros(func.num_outputs))
    /\ calls' = calls + 1
    /\ pc' = "eval"
    /\ UNCHANGED <<func, p, frame, res, bw, result, prev, second>>

\* a faulty Func._reverse that resets the counter after it has made the
\* input nodes
reverse_begin_ResetAfterInputs ==
    /\ pc = "reverse"
    /\ LET st == Wrap([heap |-> <<>>, increment |-> increment], frame.point)
       IN  /\ heap' = st.heap
           /\ increment' = 0
           /\ zs' = [j \in 1..Len(frame.point) |-> j]
           /\ made' = made + Len(frame.point)
    /\ jacobian' = [k \in 1..func.num_outputs |-> [j \in 1..func.num_inputs |-> Z(0)]]
    /\ val' = Array(Zeros(func.num_outputs))
    /\ calls' = calls + 1
    /\ pc' = "eval"
    /\ UNCHANGED <<func, p, frame, res, bw, result, prev, second>>

\* Func._reverse, lines 132-139: the counter reset, the input nodes and the
\* start of the user function
reverse_begin ==
    /\ pc = "reverse"
    /\ LET st == Wrap([heap |-> <<>>, increment |-> 0], frame.point)
       IN  /\ heap' = st.heap
           /\ increment' = st.increment
           /\ zs' = [j \in 1..Len(frame.point) |-> j]
           /\ made' = made + Len(frame.point)
    /\ jacobian' = [k \in 1..func.num_outputs |-> [j \in 1..func.num_inputs |-> Z(0)]]
    /\ val' = Array(Zeros(func.num_outputs))
    /\ calls' = calls + 1
    /\ pc' = "eval"
    /\ UNCHANGED <<func, p, frame, res, bw, result, prev, second>>

\* the user function applies the operator of its next line to Graph Nodes
func_step ==
    /\ pc = "eval"
    /\ Len(zs) - func.num_inputs < Len(func.func.body)
    /\ LET ins == func.func.body[Len(zs) - func.num_inputs + 1]
           r == ApplyNode([heap |-> heap, increment |-> increment], zs, ins)
       IN  /\ heap' = r.heap
           /\ increment' = r.increment
           /\ made' = made + (Len(r.heap) - Len(heap))
           /\ IF r.err # "none"
              THEN /\ Raise(r.err)
                   /\ UNCHANGED zs
              ELSE /\ zs' = Append(zs, r.out)
                   /\ pc' = "eval"
                   /\ UNCHANGED result
    /\ UNCHANGED <<func, p, frame, res, jacobian, val, bw, calls, prev, second>>

\* a faulty Func._reverse without the two assertions on num_outputs
reverse_returned_NoAssert ==
    /\ pc = "eval"
    /\ frame.entry = "jacobian"
    /\ Len(zs) - func.num_inputs = Len(func.func.body)
    /\ res' = [k \in 1..Len(func.func.ret) |-> zs[func.func.ret[k]]]
    /\ pc' = "backward"
    /\ UNCHANGED <<func, p, increment, heap, frame, zs, jacobian, val, bw,
                   calls, made, result, prev, second>>

\* the user function returns to Func._reverse, lines 139-149
reverse_returned ==
    /\ pc = "eval"
    /\ frame.entry = "jacobian"
    /\ Len(zs) - func.num_inputs = Len(func.func.body)
    /\ res' = [k \in 1..Len(func.func.ret) |-> zs[func.func.ret[k]]]
    /\ IF (func.func.bare /\ func.num_outputs # 1)
          \/ (~func.func.bare /\ Len(func.func.ret) # func.num_outputs)
       THEN Raise("AssertionError")
       ELSE /\ pc' = "backward"
            /\ UNCHANGED result
    /\ UNCHANGED <<func, p, increment, heap, frame, zs, jacobian, val, bw,
                   calls, made, prev, second>>

\* rNode.backward, lines 469-477, on the next output: the sort, the zeroing
\* of the adjoints and the seed
backward_begin ==
    /\ pc = "backward"
    /\ ~bw.running
    /\ bw.k < Len(res)
    /\ \E ord \in Orders(heap) :
         LET b == backward_init(heap, ord, res[bw.k + 1], func.num_inputs)
         IN  /\ heap' = b.heap
             /\ bw' = [b.bw EXCEPT !.k = bw.k + 1]
    /\ UNCHANGED <<func, p, increment, frame, pc, zs, res, jacobian, val,
                   calls, made, result, prev, second>>

\* rNode.backward, lines 479-482: one pass of the loop over reversed(topo_order)
backward_step ==
    /\ pc = "backward"
    /\ bw.running
    /\ bw.i > 0
    /\ LET b == backward_iter(heap, bw, func.num_inputs)
       IN  /\ heap' = b.heap
           /\ bw' = b.bw
    /\ UNCHANGED <<func, p, increment, frame, pc, zs, res, jacobian, val,
                   calls, made, result, prev, second>>

\* a faulty store that fills the rows of the jacobian from the last one up
backward_return_RowsReversed ==
    /\ pc = "backward"
    /\ bw.running
    /\ bw.i = 0
    /\ jacobian' = [jacobian EXCEPT ![Len(res) - bw.k + 1] = bw.jacobian_row]
    /\ val' = IF func.func.bare THEN Scalar(heap[bw.root].val)
              ELSE Array([val.v EXCEPT ![bw.k] = heap[bw.root].val])
    /\ bw' = [bw EXCEPT !.running = FALSE]
    /\ pc' = IF bw.k = Len(res) THEN "format" ELSE "backward"
    /\ UNCHANGED <<func, p, increment, heap, frame, zs, res, calls, made,
                   result, prev, second>>

\* rNode.backward, line 484, and Func._reverse, lines 144-145 and 151-152:
\* the row and the value of the output are stored
backward_return ==
    /\ pc = "backward"
    /\ bw.running
    /\ bw.i = 0
    /\ jacobian' = [jacobian EXCEPT ![bw.k] = bw.jacobian_row]
    /\ val' = IF func.func.bare THEN Scalar(heap[bw.root].val)
              ELSE Array([val.v EXCEPT ![bw.k] = heap[bw.root].val])
    /\ bw' = [bw EXCEPT !.running = FALSE]
    /\ pc' = IF bw.k = Len(res) THEN "format" ELSE "backward"
    /\ UNCHANGED <<func, p, increment, heap, frame, zs, res, calls, made,
                   result, prev, second>>

\* Func.jacobian, lines 219-226: the return format
jacobian_return ==
    /\ pc = "format"
    /\ pc' = "idle"
    /\ result' = [Outcome(frame, "return") EXCEPT
                    !.jac = Format(jacobian),
                    !.val = IF frame.feval THEN val ELSE Array(<<>>)]
    /\ prev' = IF frame.reverse /\ prev.kind = "none"
               THEN [result' EXCEPT !.val = val]
               ELSE prev
    /\ UNCHANGED <<func, p, increment, heap, frame, zs, res, jacobian, val, bw,
                   calls, made,
                   second>>

\* Func.__call__
evaluate_call(point) ==
    LET fr == [NoFrame EXCEPT !.entry = "call", !.point = point]
    IN  /\ pc = "idle"
        /\ Enter(fr)
        /\ pc' = "idle"
        /\ made' = 0
        /\ UNCHANGED increment
        /\ IF Len(point) # func.num_inputs
           THEN /\ calls' = 0
                /\ result' = Outcome(fr, "ValueError")
           ELSE /\ calls' = 1
                /\ result' = [Outcome(fr, "return") EXCEPT
                                !.val = evaluate(func, point)]

\* the directions a caller passes to trace: the one-hot and 0/1 vectors of
\* the point's length, a direction of other weights (-2, -1), or one that
\* is longer or shorter
Seeds ==
    [1..Len(p) -> {0, 1}]
    \cup {[j \in 1..Len(p) |-> j - 3]}
    \cup {Append([j \in 1..Len(p) |-> 1], 1), [j \in 1..(Len(p) - 1) |-> 1]}

\* a faulty Func.trace that compares only the point with num_inputs
trace_call_NoSeedCheck(point, seed_vector) ==
    LET fr == [NoFrame EXCEPT !.entry = "trace", !.point = point,
                              !.seed_vector = seed_vector]
    IN  /\ pc = "idle"
        /\ Enter(fr)
        /\ pc' = "idle"
        /\ UNCHANGED increment
        /\ IF Len(point) # func.num_inputs
           THEN /\ calls' = 0
                /\ made' = 0
                /\ result' = Outcome(fr, "ValueError")
           ELSE IF Len(seed_vector) < func.num_inputs
           THEN /\ calls' = 0
                /\ made' = Len(seed_vector)
                /\ result' = Outcome(fr, "IndexError")
           ELSE /\ calls' = 1
                /\ made' = DualsOfRun(func)
                /\ result' = Outcome(fr, "return")

\* a faulty Func.trace that seeds every input with 1
trace_call_UnitSeeds(point, seed_vector) ==
    LET fr == [NoFrame EXCEPT !.entry = "trace", !.point = point,
                              !.seed_vector = seed_vector]
        dzs == [j \in 1..func.num_inputs |-> DualNumber(point[j], 1)]
        env == RunDual(func.func.body, dzs)
        out == [k \in 1..Len(func.func.ret) |-> env[func.func.ret[k]]]
    IN  /\ pc = "idle"
        /\ Enter(fr)
        /\ pc' = "idle"
        /\ UNCHANGED increment
        /\ IF Len(point) # func.num_inputs \/ Len(point) # Len(seed_vector)
           THEN /\ calls' = 0
                /\ made' = 0
                /\ result' = Outcome(fr, "ValueError")
           ELSE /\ calls' = 1
                /\ made' = DualsOfRun(func)
                /\ IF (func.func.bare /\ func.num_outputs # 1)
                      \/ (~func.func.bare /\ Len(out) # func.num_outputs)
                   THEN result' = Outcome(fr, "AssertionError")
                   ELSE result' = [Outcome(fr, "return") EXCEPT
                            !.val = Array([k \in 1..func.num_outputs |-> out[k].real]),
                            !.deriv = [k \in 1..func.num_outputs |-> out[k].dual]]

\* Func.trace
trace_call(point, seed_vector) ==
    LET fr == [NoFrame EXCEPT !.entry = "trace", !.point = point,
                              !.seed_vector = seed_vector]
        dzs == [j \in 1..func.num_inputs |-> DualNumber(point[j], seed_vector[j])]
        env == RunDual(func.func.body, dzs)
        out == [k \in 1..Len(func.func.ret) |-> env[func.func.ret[k]]]
    IN  /\ pc = "idle"
        /\ Enter(fr)
        /\ pc' = "idle"
        /\ UNCHANGED increment
        /\ IF Len(point) # func.num_inputs \/ Len(point) # Len(seed_vector)
           THEN /\ calls' = 0
                /\ made' = 0
                /\ result' = Outcome(fr, "ValueError")
           ELSE /\ calls' = 1
                /\ made' = DualsOfRun(func)
                /\ IF (func.func.bare /\ func.num_outputs # 1)
                      \/ (~func.func.bare /\ Len(out) # func.num_outputs)
                   THEN result' = Outcome(fr, "AssertionError")
                   ELSE result' = [Outcome(fr, "return") EXCEPT
                            !.val = Array([k \in 1..func.num_outputs |-> out[k].real]),
                            !.deriv = [k \in 1..func.num_outputs |-> out[k].dual]]

\* a faulty Func.graph without the assertion on num_outputs
graph_call_NoOutputAssert(point, graph_direction) ==
    LET fr == [NoFrame EXCEPT !.entry = "graph", !.point = point,
                              !.graph_direction = graph_direction]
    IN  /\ pc = "idle"
        /\ increment < MaxIncrement
        /\ Enter(fr)
        /\ calls' = 0
        /\ made' = 0
        /\ UNCHANGED increment
        /\ IF graph_direction \notin {"LR", "TB"}
           THEN /\ pc' = "idle"
                /\ result' = Outcome(fr, "AssertionError")
           ELSE IF Len(point) # func.num_inputs
           THEN /\ pc' = "idle"
                /\ result' = Outcome(fr, "ValueError")
           ELSE /\ pc' = "graph"
                /\ result' = NoResult

\* a faulty Func.graph that makes the input nodes before it compares the
\* length of the point with num_inputs
graph_call_NodesFirst(point, graph_direction) ==
    LET fr == [NoFrame EXCEPT !.entry = "graph", !.point = point,
                              !.graph_direction = graph_direction]
    IN  /\ pc = "idle"
        /\ increment < MaxIncrement
        /\ Enter(fr)
        /\ calls' = 0
        /\ IF func.num_outputs # 1 \/ graph_direction \notin {"LR", "TB"}
           THEN /\ pc' = "idle"
                /\ made' = 0
                /\ UNCHANGED increment
                /\ result' = Outcome(fr, "AssertionError")
           ELSE IF Len(point) # func.num_inputs
           THEN /\ pc' = "idle"
                /\ made' = Len(point)
                /\ increment' = increment + Len(point)
                /\ result' = Outcome(fr, "ValueError")
           ELSE /\ pc' = "graph"
                /\ made' = 0
                /\ UNCHANGED increment
                /\ result' = NoResult

\* Func.graph, lines 344-351: validation
graph_call(point, graph_direction) ==
    LET fr == [NoFrame EXCEPT !.entry = "graph", !.point = point,
                              !.graph_direction = graph_direction]
    IN  /\ pc = "idle"
        /\ increment < MaxIncrement
        /\ Enter(fr)
        /\ calls' = 0
        /\ made' = 0
        /\ UNCHANGED increment
        /\ IF func.num_outputs # 1 \/ graph_direction \notin {"LR", "TB"}
           THEN /\ pc' = "idle"
                /\ result' = Outcome(fr, "AssertionError")
           ELSE IF Len(point) # func.num_inputs
           THEN /\ pc' = "idle"
                /\ result' = Outcome(fr, "ValueError")
           ELSE /\ pc' = "graph"
                /\ result' = NoResult

\* Func.graph, lines 353-358: the input nodes and the start of the user
\* function; the counter goes on from where it stands
graph_begin ==
    /\ pc = "graph"
    /\ LET st == Wrap([heap |-> <<>>, increment |-> increment], frame.point)
       IN  /\ heap' = st.heap
           /\ increment' = st.increment
           /\ zs' = [j \in 1..Len(frame.point) |-> j]
           /\ made' = made + Len(frame.point)
    /\ calls' = calls + 1
    /\ pc' = "eval"
    /\ UNCHANGED <<func, p, frame, res, jacobian, val, bw, result, prev, second>>

\* the user function returns to Func.graph, lines 358-361
graph_returned ==
    /\ pc = "eval"
    /\ frame.entry = "graph"
    /\ Len(zs) - func.num_inputs = Len(func.func.body)
    /\ res' = [k \in 1..Len(func.func.ret) |-> zs[func.func.ret[k]]]
    /\ IF ~func.func.bare
       THEN Raise("AssertionError")
       ELSE /\ pc' = "idle"
            /\ \E ord \in Orders(heap) :
                 LET g == graph_object(heap, ord, zs[func.func.ret[1]])
                 IN  result' = [Outcome(frame, "return") EXCEPT
                                  !.nodes = g.nodes, !.edges = g.edges]
    /\ UNCHANGED <<func, p, increment, heap, frame, zs, jacobian, val, bw,
                   calls, made, prev, second>>

----------------------------------------------------------------------------
(* Specifications.                                                         *)

\* no second evaluation has begun: where it stands ("before", "inside",
\* "after" its node creations), the creation indices its nodes received,
\* the counter as its last step left it, and whether a step of it fell
\* inside the window of the first evaluation or found the counter moved
NoSecond == [at |-> "before", names |-> <<>>, left |-> 0, overlapped |-> FALSE]

\* the state after Func.__init__ and before the first call
Start ==
    /\ increment = 0
    /\ heap = <<>>
    /\ frame = NoFrame
    /\ pc = "idle"
    /\ zs = <<>>
    /\ res = <<>>
    /\ jacobian = <<>>
    /\ val = Array(<<>>)
    /\ bw = NoBackward
    /\ calls = 0
    /\ made = 0
    /\ result = NoResult
    /\ prev = NoResult
    /\ second = NoSecond

\* the Func objects over the callables of at most `ops` lines
Funcs(ops) == UNION {{Func(c, n) : c \in Callables(n, ops)} : n \in Arities}

\* lambda x: 4 * x**3 - 3, declared with 1 input and 1 output
Cubic ==
    Func([body |-> <<[op |-> "**", a |-> Slot(1), b |-> Num(3)],
                     [op |-> "*", a |-> Num(4), b |-> Slot(2)],
                     [op |-> "-", a |-> Slot(3), b |-> Num(3)]>>,
          ret |-> <<4>>, bare |-> TRUE], 1)

\* def fofx(x, y): return y * x**2, (x - y), declared with 2 inputs, 2 outputs
Fofx ==
    Func([body |-> <<[op |-> "**", a |-> Slot(1), b |-> Num(2)],
                     [op |-> "*", a |-> Slot(2), b |-> Slot(3)],
                     [op |-> "-", a |-> Slot(1), b |-> Slot(2)]>>,
          ret |-> <<4, 5>>, bare |-> FALSE], 2)

\* the points of the documented examples
DocPoints(n) == IF n = 1 THEN {<<2>>} ELSE {<<2, 3>>}

\* a caller with any function of the bounded family or of the documented
\* examples and any point of its arity, who goes on calling
Init ==
    /\ func \in Funcs(SessionOps) \cup {Cubic, Fofx}
    /\ p \in Points(func.num_inputs) \cup DocPoints(func.num_inputs)
    /\ Start

Next ==
    \/ \E point \in Args, feval \in BOOLEAN, reverse \in BOOLEAN :
           jacobian_call(point, feval, reverse)
    \/ forward_begin
    \/ forward_step
    \/ forward_return
    \/ reverse_begin
    \/ func_step
    \/ reverse_returned
    \/ backward_begin
    \/ backward_step
    \/ backward_return
    \/ jacobian_return
    \/ \E point \in Args : evaluate_call(point)
    \/ \E point \in Args, seed_vector \in Seeds : trace_call(point, seed_vector)
    \/ \E point \in Args, graph_direction \in {"LR", "TB", "BT"} :
           graph_call(point, graph_direction)
    \/ graph_begin
    \/ graph_returned

Spec == Init /\ [][Next]_vars

\* one reverse-mode jacobian call at the point, for longer functions
InitReverse ==
    /\ func \in Funcs(MaxOps)
    /\ p \in Points(func.num_inputs)
    /\ Start

NextReverse ==
    \/ /\ result.kind = "none"
       /\ jacobian_call(p, FALSE, TRUE)
    \/ reverse_begin
    \/ func_step
    \/ reverse_returned
    \/ backward_begin
    \/ backward_step
    \/ backward_return
    \/ jacobian_return

SpecReverse == InitReverse /\ [][NextReverse]_vars

\* the Func object with another declaration of the number of outputs
Declared(F, num_outputs) == [F EXCEPT !.num_outputs = num_outputs]

\* a caller whose Func may declare a number of outputs that the callable
\* does not return
InitDeclared ==
    /\ func \in {Declared(F, m) : F \in Funcs(SessionOps) \cup {Cubic, Fofx},
                                   m \in 1..MaxOutputs}
    /\ p \in Points(func.num_inputs) \cup DocPoints(func.num_inputs)
    /\ Start

SpecDeclared == InitDeclared /\ [][Next]_vars

\* one call of Func.graph at the point, for the longer functions
NextGraph ==
    \/ /\ result.kind = "none"
       /\ \E graph_direction \in {"LR", "TB", "BT"} : graph_call(p, graph_direction)
    \/ graph_begin
    \/ func_step
    \/ graph_returned

SpecGraph == InitReverse /\ [][NextGraph]_vars

\* the caller makes a node of their own: rNode(v)
construct ==
    /\ pc = "idle"
    /\ increment < MaxIncrement
    /\ increment' = increment + 1
    /\ UNCHANGED <<func, p, heap, frame, pc, zs, res, jacobian, val, bw, calls,
                   made, result, prev, second>>

\* the caller turns to another Func object of the same callable, declared
\* with num_outputs outputs
other_Func(num_outputs) ==
    /\ pc = "idle"
    /\ func' = Declared(func, num_outputs)
    /\ UNCHANGED <<p, increment, heap, frame, pc, zs, res, jacobian, val, bw,
                   calls, made, result, prev, second>>

\* a session of calls at the point in which calls fail after their nodes
\* were made and the caller makes nodes between the calls
NextSession ==
    \/ \E feval \in BOOLEAN, reverse \in BOOLEAN : jacobian_call(p, feval, reverse)
    \/ forward_begin
    \/ forward_step
    \/ forward_return
    \/ reverse_begin
    \/ func_step
    \/ reverse_returned
    \/ backward_begin
    \/ backward_step
    \/ backward_return
    \/ jacobian_return
    \/ evaluate_call(p)
    \/ \E seed_vector \in [1..Len(p) -> {0, 1}] : trace_call(p, seed_vector)
    \/ \E graph_direction \in {"LR", "TB"} : graph_call(p, graph_direction)
    \/ graph_begin
    \/ graph_returned
    \/ construct
    \/ \E num_outputs \in 1..MaxOutputs : other_Func(num_outputs)

SpecSession == Init /\ [][NextSession]_vars

----------------------------------------------------------------------------
(* Direct use of the library, as the unit tests make it: a script holds    *)
(* two values x and y (zs) - numbers, DualNumbers, rNodes or objects of    *)
(* another type - and applies one function or operator of the library; no  *)
(* Func is involved.  result.kind is the outcome, res holds the value      *)
(* returned.                                                               *)

\* an object of a type the library does not support, such as a string
Other == [k |-> "str", i |-> 0]

\* the numbers of the scripts
Reals == (-MaxReal)..MaxReal

\* what a script can name before it creates its rNodes: a number, a
\* DualNumber, rNode(a) ("leaf") or an object of another type
Kinds == {"num", "dual", "leaf", "str"}

\* the value of kind k made from the numbers a and d
ScriptValue(k, a, d) ==
    CASE k = "num" -> Num(a)
      [] k = "dual" -> Dual(DualNumber(a, d))
      [] k = "leaf" -> [k |-> "leaf", i |-> a]
      [] k = "str" -> Other

\* the numbers that make a value of kind k: one value per choice
Parts(k) ==
    CASE k = "dual" -> Reals \X Reals
      [] k = "str" -> {<<0, 0>>}
      [] OTHER -> Reals \X {0}

RECURSIVE Create(_, _, _)
\* the script evaluates its values in order: rNode(a) for each leaf
Create(st, values, done) ==
    IF values = <<>> THEN [heap |-> st.heap, increment |-> st.increment, zs |-> done]
    ELSE IF Head(values).k = "leaf"
         THEN LET s2 == rNode(st, Head(values).i, {}, "")
              IN  Create(s2, Tail(values), Append(done, Node(Len(s2.heap))))
    ELSE Create(st, Tail(values), Append(done, Head(values)))

\* no Func object
NoFunc ==
    [func |-> [body |-> <<>>, ret |-> <<>>, bare |-> TRUE],
     num_inputs |-> 0, num_outputs |-> 0]

\* the script has evaluated x and y, one of them a DualNumber or an rNode
InitDirect ==
    /\ func = NoFunc
    /\ p = <<>>
    /\ \E kx \in Kinds, ky \in Kinds :
          /\ {kx, ky} \cap {"dual", "leaf"} # {}
          /\ \E x \in Parts(kx), y \in Parts(ky) :
                LET c == Create([heap |-> <<>>, increment |-> 0],
                                <<ScriptValue(kx, x[1], x[2]),
                                  ScriptValue(ky, y[1], y[2])>>, <<>>)
                IN  /\ heap = c.heap
                    /\ increment = c.increment
                    /\ zs = c.zs
    /\ frame = NoFrame
    /\ pc = "idle"
    /\ res = <<>>
    /\ jacobian = <<>>
    /\ val = Array(<<>>)
    /\ bw = NoBackward
    /\ calls = 0
    /\ made = 0
    /\ result = NoResult
    /\ prev = NoResult
    /\ second = NoSecond

\* the script's statement ends with the outcome r of the library call `entry`
Finish(entry, r) ==
    /\ pc = "idle"
    /\ result.kind = "none"
    /\ heap' = r.heap
    /\ increment' = r.increment
    /\ made' = Len(r.heap) - Len(heap)
    /\ frame' = [NoFrame EXCEPT !.entry = entry]
    /\ result' = [NoResult EXCEPT !.entry = entry,
                                  !.kind = IF r.err = "none" THEN "return" ELSE r.err]
    /\ res' = IF r.err = "none" THEN <<r.out>> ELSE <<>>
    /\ UNCHANGED <<func, p, pc, zs, jacobian, val, bw, calls, prev, second>>

\* the state of the rNode class as the script sees it
Now == [heap |-> heap, increment |-> increment]

\* ad.log(x), ad.arcsin(x), ad.arccos(x), ad.sqrt(x)
elementary(fn) ==
    Finish(fn, CASE fn = "log" -> log(Now, zs[1])
                 [] fn = "arcsin" -> arcsin(Now, zs[1])
                 [] fn = "arccos" -> arccos(Now, zs[1])
                 [] fn = "sqrt" -> sqrt(Now, zs[1]))

\* ad.log_base(x, y)
elementary_base == Finish("log_base", log_base(Now, zs[1], zs[2]))

\* the outcome of an rNode method, its result as the script holds it
Held(r) == [heap |-> r.heap, increment |-> r.increment,
            out |-> Node(r.out), err |-> r.err]

\* x op y where x is an rNode: Python calls the method of x
node_binary(op) ==
    /\ zs[1].k = "node"
    /\ LET x == zs[1].i
           y == zs[2]
       IN  CASE op = "+" -> Finish("__add__", Held(add(Now, x, y)))
             [] op = "-" -> Finish("__sub__", Held(sub(Now, x, y)))
             [] op = "*" -> Finish("__mul__", Held(mul(Now, x, y)))
             [] op = "/" -> Finish("__truediv__", Held(truediv(Now, x, y)))
             [] op = "**" -> Finish("__pow__", Held(pow(Now, x, y)))

\* x op y where y is an rNode and x is a number or an object whose type
\* does not implement op for an rNode: Python calls the reflected method of y
node_reflected(op) ==
    /\ zs[1].k \in {"num", "str"}
    /\ zs[2].k = "node"
    /\ LET x == zs[1]
           y == zs[2].i
       IN  CASE op = "+" -> Finish("__radd__", Held(radd(Now, y, x)))
             [] op = "-" -> Finish("__rsub__", Held(rsub(Now, y, x)))
             [] op = "*" -> Finish("__rmul__", Held(rmul(Now, y, x)))
             [] op = "/" -> Finish("__rtruediv__", Held(rtruediv(Now, y, x)))
             [] op = "**" -> Finish("__rpow__", Held(rpow(Now, y, x)))

\* the outcome of a DualNumber method, its result as the script holds it;
\* st is the state of the rNode class after the operands were evaluated
DualHeld(st, r) ==
    [heap |-> st.heap, increment |-> st.increment, out |-> Dual(r.out),
     err |-> r.err]

\* x op y where x is a DualNumber: Python calls the method of x; for an
\* rNode y, __sub__ first evaluates y * (-1), which makes two nodes
dual_binary(op) ==
    /\ zs[1].k = "dual"
    /\ LET x == zs[1].i
           y == zs[2]
           negated == mul(Now, y.i, Num(-1))
       IN  CASE op = "+" -> Finish("DualNumber.__add__", DualHeld(Now, dadd(x, y)))
             [] op = "-" ->
                  Finish("DualNumber.__sub__",
                         DualHeld(IF y.k = "node" THEN negated ELSE Now, dsub(x, y)))
             [] op = "*" -> Finish("DualNumber.__mul__", DualHeld(Now, dmul(x, y)))

\* x op y where y is a DualNumber and x is a number or an object whose
\* type does not implement op for a DualNumber: the reflected method of y
dual_reflected(op) ==
    /\ zs[1].k \in {"num", "str"}
    /\ zs[2].k = "dual"
    /\ LET x == zs[1]
           y == zs[2].i
       IN  CASE op = "+" -> Finish("DualNumber.__radd__", DualHeld(Now, dradd(y, x)))
             [] op = "-" -> Finish("DualNumber.__rsub__", DualHeld(Now, drsub(y, x)))
             [] op = "*" -> Finish("DualNumber.__rmul__", DualHeld(Now, drmul(y, x)))

\* the operators of the scripts
Operators == {"+", "-", "*", "/", "**"}

NextDirect ==
    \/ \E fn \in {"log", "arcsin", "arccos", "sqrt"} : elementary(fn)
    \/ elementary_base
    \/ \E op \in Operators : node_binary(op)
    \/ \E op \in Operators : node_reflected(op)
    \/ \E op \in {"+", "-", "*"} : dual_binary(op)
    \/ \E op \in {"+", "-", "*"} : dual_reflected(op)

SpecDirect == InitDirect /\ [][NextDirect]_vars

----------------------------------------------------------------------------
(* Notions the properties are stated with.                                 *)

RECURSIVE Ancestors(_, _, _)
\* the nodes reachable from the nodes of `todo` through parent links
Ancestors(h, todo, seen) ==
    IF todo = {} THEN seen
    ELSE LET n == CHOOSE x \in todo : TRUE
         IN  Ancestors(h, (todo \cup h[n].parents) \ (seen \cup {n}), seen \cup {n})

\* the nodes reachable from a root, the root included
Reach(h, root) == Ancestors(h, {root}, {})

\* a reverse-mode jacobian call has just returned
ReverseReturned ==
    /\ pc = "idle"
    /\ result.kind = "return"
    /\ result.entry = "jacobian"
    /\ result.reverse

\* the operand positions of the node, as its operator received them
Operands(h, n) ==
    IF h[n].backward_func.rule = "none" THEN <<>>
    ELSE <<h[n].backward_func.self, h[n].backward_func.other>>

----------------------------------------------------------------------------
(* C1: for every function of the family and every point, the reverse-mode  *)
(* jacobian that the call returns is the matrix (or bare 1 x 1 entry) that *)
(* forward mode computes for the same function at the same point.          *)

C1_ReverseEqualsForward ==
    ReverseReturned =>
        result.jac = Format(forward(func, result.point).jacobian)

\* a 2 x 2 jacobian was returned for a function that reads an input twice
\* and promotes a literal
C1_Witness ==
    /\ ReverseReturned
    /\ func.num_inputs = 2
    /\ func.num_outputs = 2
    /\ Len(func.func.body) = 2
    /\ \E k \in 1..2 : func.func.body[k].a = Slot(1) /\ func.func.body[k].b = Slot(1)
    /\ \E k \in 1..2 : func.func.body[k].a.k = "num"
    /\ \A k \in 1..2 : \E j \in 1..2 : result.jac.m[k][j].n # 0

----------------------------------------------------------------------------
(* C2: in a reverse-mode jacobian evaluation, when the backward passes     *)
(* run, a node reachable from an output has a creation index below         *)
(* num_inputs exactly if it is one of the nodes Func._reverse made for the *)
(* inputs, its index is then the input's position, and every promoted      *)
(* literal has a creation index of at least num_inputs.                    *)

\* the nodes Func._reverse made for the inputs
InputNodes == {zs[j] : j \in 1..func.num_inputs}

\* the nodes reachable from some output
OutputReach == UNION {Reach(heap, res[k]) : k \in 1..Len(res)}

C2_InputIndexIdentity ==
    (pc = "backward" /\ frame.entry = "jacobian") =>
        /\ \A node \in OutputReach :
              /\ NameIndex(heap[node].name) < func.num_inputs <=> node \in InputNodes
              /\ \A j \in 1..func.num_inputs :
                    zs[j] = node => NameIndex(heap[node].name) = j - 1
        /\ \A node \in 1..Len(heap) :
              (heap[node].parents = {} /\ node \notin InputNodes)
                  => NameIndex(heap[node].name) >= func.num_inputs

\* a backward pass of a second evaluation (the counter stood above 0 when
\* it began) over a graph with both inputs and a promoted literal
C2_Witness ==
    /\ pc = "backward"
    /\ frame.entry = "jacobian"
    /\ prev.kind = "return"
    /\ func.num_inputs = 2
    /\ InputNodes \subseteq OutputReach
    /\ \E node \in OutputReach : heap[node].parents = {} /\ node \notin InputNodes

----------------------------------------------------------------------------
(* C3: for every graph the operators build, every root and every order of  *)
(* iterating the parent sets, each node of the sorted list comes strictly  *)
(* after each of its parents, and the root is last.                        *)

\* every parent of every node of t stands before it in t
ParentsFirst(h, t) ==
    \A i \in 1..Len(t) : \A par \in h[t[i]].parents : \E j \in 1..(i - 1) : t[j] = par

C3_ParentsBeforeChildren ==
    pc = "eval" =>
        \A root \in 1..Len(heap) : \A ord \in Orders(heap) :
            LET t == sort_nodes(heap, ord, root)
            IN  ParentsFirst(heap, t) /\ t[Len(t)] = root

\* a finished graph of two operators in which one node is an operand of both
C3_Witness ==
    /\ pc = "eval"
    /\ Len(zs) = func.num_inputs + 2
    /\ \E v \in 1..Len(heap) :
          /\ v \in heap[zs[Len(zs)]].parents
          /\ v \in heap[zs[Len(zs) - 1]].parents
          /\ zs[Len(zs) - 1] \in heap[zs[Len(zs)]].parents
    /\ Len(sort_nodes(heap, [n \in 1..Len(heap) |-> FALSE], zs[Len(zs)])) >= 4

----------------------------------------------------------------------------
(* C4: during a backward pass the backward_func of a node runs at most     *)
(* once and only after that of each of its reachable children; when the    *)
(* pass ends it has run for exactly the reachable nodes, and the entry     *)
(* written into the row for an input node is that node's final adjoint.    *)

\* the nodes reachable from the root that have v as a parent
Children(h, root, v) == {c \in Reach(h, root) : v \in h[c].parents}

C4_ChildrenBeforeParents ==
    bw.running =>
        LET R == Reach(heap, bw.root)
            inv == bw.invoked
        IN  /\ \A i, j \in 1..Len(inv) : inv[i] = inv[j] => i = j
            /\ Range(inv) \subseteq R
            /\ \A i \in 1..Len(inv) : \A c \in Children(heap, bw.root, inv[i]) :
                  \E j \in 1..(i - 1) : inv[j] = c
            /\ bw.i = 0 => Range(inv) = R
            /\ bw.i = 0 =>
                  \A v \in R : NameIndex(heap[v].name) < func.num_inputs =>
                      bw.jacobian_row[NameIndex(heap[v].name) + 1] = heap[v].der

\* a finished pass over a graph in which an input has two children and its
\* adjoint is the sum of two non-zero contributions
C4_Witness ==
    /\ bw.running
    /\ bw.i = 0
    /\ \E v \in InputNodes :
          /\ Cardinality(Children(heap, bw.root, v)) = 2
          /\ \A c \in Children(heap, bw.root, v) : heap[c].der.n # 0
          /\ heap[v].der.n # 0

----------------------------------------------------------------------------
(* C5: whatever backward passes ran on the graph before, from whichever    *)
(* outputs, the row a backward pass on output k returns is the row the     *)
(* pass returns on the same graph with every adjoint at zero; the rows     *)
(* Func._reverse stored are these rows.                                    *)

\* the graph with every adjoint at zero, as the operators left it
Fresh(h) == [n \in 1..Len(h) |-> [h[n] EXCEPT !.der = Z(0)]]

C5_RowIndependentOfEarlierPasses ==
    (pc \in {"backward", "format"} /\ frame.reverse /\ ~bw.running) =>
        /\ \A k1, k2 \in 1..Len(res) : \A ord1, ord2 \in Orders(heap) :
              backward(backward(heap, ord1, res[k1], func.num_inputs).heap,
                       ord2, res[k2], func.num_inputs).jacobian_row
                = backward(Fresh(heap), ord2, res[k2], func.num_inputs).jacobian_row
        /\ \A k \in 1..bw.k : \A ord \in Orders(heap) :
              jacobian[k]
                = backward(Fresh(heap), ord, res[k], func.num_inputs).jacobian_row

\* the first pass has ended and left non-zero adjoints on nodes the second
\* output reaches too, an operator node among them
C5_Witness ==
    /\ pc = "backward"
    /\ ~bw.running
    /\ bw.k = 1
    /\ Len(res) = 2
    /\ \E v \in Reach(heap, res[1]) \cap Reach(heap, res[2]) :
          heap[v].parents # {} /\ heap[v].der # Z(0)
    /\ \E v \in InputNodes \cap Reach(heap, res[2]) : heap[v].der # Z(0)

----------------------------------------------------------------------------
(* C6: every reverse-mode jacobian call that returns, after whatever calls *)
(* of any entry point came before it on the same Func, returns the         *)
(* jacobian (and, with function_eval, the value) that the first            *)
(* reverse-mode call at the point returned.                                *)

C6_ReverseIdempotent ==
    (ReverseReturned /\ prev.kind = "return") =>
        /\ result.point = prev.point
        /\ result.jac = prev.jac
        /\ result.feval => result.val = prev.val

\* a later reverse-mode call (it differs from the first in function_eval)
\* has returned a jacobian with a non-zero entry
C6_Witness ==
    /\ ReverseReturned
    /\ prev.kind = "return"
    /\ result.feval # prev.feval
    /\ \E k \in 1..Len(result.jac.m) : \E j \in 1..Len(result.jac.m[k]) :
          result.jac.m[k][j].n # 0

----------------------------------------------------------------------------
(* C7: when a backward pass has run all its steps, the adjoint of every    *)
(* reachable node other than the root is the sum, over the operand         *)
(* positions of reachable nodes that hold it, of the local partial         *)
(* derivative times the adjoint of the node that uses it; a node that is   *)
(* both operands of one operator receives two contributions.               *)

\* the uses of v: the pairs of a node of R and the operand position in
\* which it received v
Uses(h, R, v) ==
    {u \in R \X {1, 2} : Operands(h, u[1]) # <<>> /\ Operands(h, u[1])[u[2]] = v}

\* the local partial derivative of node c with respect to its operand at
\* position pos, times the adjoint of c
Contribution(h, c, pos) ==
    LET f == h[c].backward_func
        s == h[f.self].val
        o == h[f.other].val
    IN  CASE f.rule \in {"add"} -> Scale(1, h[c].der)
          [] f.rule = "sub" -> Scale(IF pos = 1 THEN 1 ELSE -1, h[c].der)
          [] f.rule = "rsub" -> Scale(IF pos = 1 THEN -1 ELSE 1, h[c].der)
          [] f.rule = "mul" -> Scale(IF pos = 1 THEN o ELSE s, h[c].der)
          [] f.rule = "pow" ->
                IF pos = 1 THEN Scale(o * IPow(s, o - 1), h[c].der)
                ELSE LogTimes(IPow(s, o), s, h[c].der)

RECURSIVE SumOfUses(_, _)
\* the sum of the contributions of a set of uses
SumOfUses(h, U) ==
    IF U = {} THEN Z(0)
    ELSE LET u == CHOOSE x \in U : TRUE
         IN  DAdd(SumOfUses(h, U \ {u}), Contribution(h, u[1], u[2]))

C7_AdjointIsSumOverUses ==
    (bw.running /\ bw.i = 0) =>
        LET R == Reach(heap, bw.root)
        IN  \A v \in R \ {bw.root} :
                heap[v].der = SumOfUses(heap, Uses(heap, R, v))

\* a finished pass over a graph where a node is both operands of a product
\* with a non-zero adjoint, and is an operand of another node as well
C7_Witness ==
    /\ bw.running
    /\ bw.i = 0
    /\ \E c \in Reach(heap, bw.root) :
          /\ heap[c].backward_func.rule = "mul"
          /\ Cardinality(heap[c].parents) = 1
          /\ heap[c].der.n # 0
          /\ \E v \in heap[c].parents :
                /\ Cardinality(Uses(heap, Reach(heap, bw.root), v)) = 3
                /\ heap[v].der.n # 0

----------------------------------------------------------------------------
(* C8: for fofx(x, y) = (y * x**2, x - y), declared with 2 inputs and 2    *)
(* outputs, every jacobian call that returns, in forward or in reverse     *)
(* mode, returns the matrix whose row k holds the partial derivatives of   *)
(* output k by the inputs in their order: [[2xy, x**2], [1, -1]], which is *)
(* [[12, 4], [1, -1]] at the point [2, 3].                                 *)

\* a jacobian call has just returned
JacobianReturned ==
    /\ pc = "idle"
    /\ result.kind = "return"
    /\ result.entry = "jacobian"

C8_FofxJacobian ==
    (JacobianReturned /\ func = Fofx) =>
        LET x == result.point[1]
            y == result.point[2]
        IN  /\ result.jac = [scalar |-> FALSE,
                             m |-> <<<<Z(2 * x * y), Z(x * x)>>, <<Z(1), Z(-1)>>>>]
            /\ result.point = <<2, 3>> =>
                  result.jac.m = <<<<Z(12), Z(4)>>, <<Z(1), Z(-1)>>>>

\* fofx at [2, 3]: a forward-mode call has returned after a reverse-mode
\* call had
C8_Witness ==
    /\ JacobianReturned
    /\ func = Fofx
    /\ result.point = <<2, 3>>
    /\ ~result.reverse
    /\ prev.kind = "return"

----------------------------------------------------------------------------
(* C9: a jacobian call that returns, in either mode, returns the bare      *)
(* entry exactly if num_inputs = 1 and num_outputs = 1, and otherwise the  *)
(* matrix of num_outputs rows of num_inputs entries; for 4 * x**3 - 3 at   *)
(* [2] it returns the bare 48.                                             *)

C9_BareScalarIffOneByOne ==
    JacobianReturned =>
        /\ result.jac.scalar <=> (func.num_inputs = 1 /\ func.num_outputs = 1)
        /\ Len(result.jac.m) = func.num_outputs
        /\ \A k \in 1..func.num_outputs : Len(result.jac.m[k]) = func.num_inputs
        /\ (func = Cubic /\ result.point = <<2>>) =>
              result.jac = [scalar |-> TRUE, m |-> <<<<Z(48)>>>>]

\* the cubic at [2]: a forward-mode call has returned the bare entry after
\* a reverse-mode call had
C9_Witness ==
    /\ JacobianReturned
    /\ func = Cubic
    /\ result.point = <<2>>
    /\ result.jac.scalar
    /\ ~result.reverse
    /\ prev.kind = "return"
    /\ prev.jac.scalar

----------------------------------------------------------------------------
(* C10: a call of __call__, jacobian (either mode), trace, or graph on a   *)
(* function declared with one output, whose point has a length other than  *)
(* num_inputs, ends at once: the user function is not invoked, no          *)
(* DualNumber or rNode is made and rNode.increment keeps its value.  The   *)
(* error is the ValueError of the dimension check, unless graph was given  *)
(* a layout direction other than 'LR' and 'TB', which its assertion        *)
(* refuses before the point is looked at.                                  *)

\* the step is a call of an entry point with a point of a wrong length
WrongLengthCall ==
    /\ pc = "idle"
    /\ frame'.entry \in {"call", "jacobian", "trace", "graph"}
    /\ Len(frame'.point) # func.num_inputs
    /\ frame'.entry = "graph" => func.num_outputs = 1

C10_WrongLengthRefused ==
    [][WrongLengthCall =>
          /\ pc' = "idle"
          /\ calls' = 0
          /\ made' = 0
          /\ heap' = <<>>
          /\ increment' = increment
          /\ result'.entry = frame'.entry
          /\ IF frame'.entry = "graph" /\ frame'.graph_direction \notin {"LR", "TB"}
             THEN result'.kind = "AssertionError"
             ELSE result'.kind = "ValueError"]_vars

\* graph on a one-output function has refused a point of a wrong length
\* while the counter stood above 0 from an earlier graph call
C10_Witness ==
    /\ pc = "idle"
    /\ result.kind = "ValueError"
    /\ result.entry = "graph"
    /\ func.num_outputs = 1
    /\ Len(result.point) # func.num_inputs
    /\ increment > 0

----------------------------------------------------------------------------
(* C11: when the callable returns a bare value and num_outputs is not 1,   *)
(* or returns a sequence whose length is not num_outputs, a jacobian call  *)
(* with a point of the right length, in either mode, never reaches a       *)
(* backward pass or its return statement, holds no result while it runs    *)
(* and ends with the AssertionError of the dimension assertion.            *)

\* the callable does not return num_outputs values
Mismatch ==
    \/ func.func.bare /\ func.num_outputs # 1
    \/ ~func.func.bare /\ Len(func.func.ret) # func.num_outputs

C11_ArityMismatchAsserts ==
    (Mismatch /\ frame.entry = "jacobian" /\ Len(frame.point) = func.num_inputs) =>
        /\ pc \notin {"backward", "format"}
        /\ result.kind \in {"none", "AssertionError"}
        /\ result.jac = NoResult.jac
        /\ pc = "idle" => result.kind = "AssertionError"

\* a function declared with 2 outputs that returns one value has failed in
\* reverse mode after it ran, and one declared with 1 output that returns
\* two values is covered by the same formula
C11_Witness ==
    /\ pc = "idle"
    /\ result.kind = "AssertionError"
    /\ result.entry = "jacobian"
    /\ result.reverse
    /\ func.func.bare
    /\ func.num_outputs = 2
    /\ Len(func.func.body) > 0
    /\ made > func.num_inputs

----------------------------------------------------------------------------
(* C12: whichever of the three representations the argument has, with a    *)
(* its real value: log and log_base (with a numeric base) raise ValueError *)
(* exactly if a <= 0, arcsin and arccos exactly if a < -1 or a > 1, sqrt   *)
(* exactly if a < 0, and otherwise they return; log_base with a base that  *)
(* is not a number raises TypeError whatever a is.                         *)

\* the real value of a number, DualNumber or rNode
RealOf(h, x) ==
    CASE x.k = "num" -> x.i
      [] x.k = "dual" -> x.i.real
      [] x.k = "node" -> h[x.i].val

\* the domain rule of the function: the real values it refuses
OutOfDomain(fn, a) ==
    CASE fn \in {"log", "log_base"} -> a <= 0
      [] fn \in {"arcsin", "arccos"} -> a < -1 \/ a > 1
      [] fn = "sqrt" -> a < 0

----------------------------------------------------------------------------
(* C13 as stated: every binary operator of an rNode, reflected forms       *)
(* included, raises TypeError when the other operand is neither a number   *)
(* nor an rNode, and returns an rNode when it is one of those.             *)

\* the methods Python calls on an rNode for a binary operator
NodeMethods ==
    {"__add__", "__sub__", "__mul__", "__truediv__", "__pow__",
     "__radd__", "__rsub__", "__rmul__", "__rtruediv__", "__rpow__"}

\* an rNode method has run: the operand it received as `other`
OtherOperand == IF zs[1].k = "node" THEN zs[2] ELSE zs[1]

\* ... and the value of the rNode it ran on
SelfValue == IF zs[1].k = "node" THEN heap[zs[1].i].val ELSE heap[zs[2].i].val

\* the call has returned a node it created
ReturnedNewNode ==
    /\ result.kind = "return"
    /\ res[1].k = "node"
    /\ res[1].i = Len(heap)
    /\ made >= 1

DividesByZero ==
    LET o == RealOf(heap, OtherOperand)
    IN  CASE result.entry = "__truediv__" -> o = 0
          [] result.entry = "__rtruediv__" -> SelfValue = 0
          [] result.entry = "__pow__" -> SelfValue = 0 /\ o < 0
          [] result.entry = "__rpow__" -> o = 0 /\ SelfValue < 0
          [] OTHER -> FALSE

----------------------------------------------------------------------------
(* C14: a call of trace whose seed vector has a length other than          *)
(* num_inputs, whether the point has the right length or not, ends with    *)
(* ValueError; the user function was not invoked and no DualNumber was     *)
(* made.                                                                   *)

C14_SeedLengthRefused ==
    (/\ pc = "idle"
     /\ result.entry = "trace"
     /\ Len(result.seed_vector) # func.num_inputs) =>
        /\ result.kind = "ValueError"
        /\ calls = 0
        /\ made = 0

\* trace has refused a seed vector of a wrong length given with a point of
\* the right length
C14_Witness ==
    /\ pc = "idle"
    /\ result.entry = "trace"
    /\ result.kind = "ValueError"
    /\ Len(result.point) = func.num_inputs
    /\ Len(result.seed_vector) < func.num_inputs

----------------------------------------------------------------------------
(* C15: a call of graph on a Func declared with more than one output ends  *)
(* with AssertionError before the point is looked at or the function       *)
(* invoked; on a Func declared with one output whose callable returns a    *)
(* tuple it ends with AssertionError after the function ran; otherwise,    *)
(* given a valid direction and a point of the right length, it returns     *)
(* the graph of the node the function returned.                            *)

C15_GraphNeedsOneOutput ==
    (pc = "idle" /\ result.entry = "graph" /\ frame.entry = "graph") =>
        IF func.num_outputs > 1
        THEN result.kind = "AssertionError" /\ calls = 0 /\ made = 0 /\ heap = <<>>
        ELSE IF frame.graph_direction \notin {"LR", "TB"}
        THEN result.kind = "AssertionError" /\ calls = 0
        ELSE IF Len(result.point) # func.num_inputs
        THEN result.kind = "ValueError" /\ calls = 0
        ELSE IF ~func.func.bare
        THEN result.kind = "AssertionError" /\ calls = 1
        ELSE /\ result.kind = "return"
             /\ calls = 1
             /\ result.nodes = Reach(heap, zs[func.func.ret[1]])

\* graph has failed after running a callable that returns a tuple, on a
\* Func declared with one output
C15_Witness ==
    /\ pc = "idle"
    /\ result.entry = "graph"
    /\ result.kind = "AssertionError"
    /\ func.num_outputs = 1
    /\ ~func.func.bare
    /\ calls = 1
    /\ Len(heap) > func.num_inputs

----------------------------------------------------------------------------
(* C16: in every evaluation on rNodes that Func starts, by jacobian with   *)
(* reverse=True or by graph, rNode.increment is 0 when the first input     *)
(* node is made: while the function runs, the node of input j (counted     *)
(* from 1) is named v(j-1).                                                *)

C16_InputsNamedFromZero ==
    pc = "eval" =>
        \A j \in 1..func.num_inputs : NameIndex(heap[zs[j]].name) = j - 1

----------------------------------------------------------------------------
(* C17: a jacobian call with feval=True that returns, in forward or in     *)
(* reverse mode, returns as its first element an array of num_outputs      *)
(* numbers, the values of the function at the point, also when             *)
(* num_outputs = 1.                                                        *)

\* the values of the function at the point, output by output
ValuesAt(F, point) ==
    LET env == RunNum(F.func.body, point)
    IN  [k \in 1..Len(F.func.ret) |-> env[F.func.ret[k]]]

C17_ValueIsArrayOfOutputs ==
    (JacobianReturned /\ result.feval) =>
        /\ result.val.arr
        /\ Len(result.val.v) = func.num_outputs
        /\ result.val.v = ValuesAt(func, result.point)

----------------------------------------------------------------------------
(* C18: for DualNumbers z = (a, a'), w = (b, b') and a number c:           *)
(* z + w = (a + b, a' + b'), z + c = c + z = (a + c, a'),                  *)
(* z * w = (a*b, a*b' + a'*b), z * c = c * z = (a*c, a'*c); the operator   *)
(* with its operands swapped gives the same DualNumber.                    *)

\* the DualNumber the script's statement returned
Out == res[1].i

C18_DualAddAndMul ==
    /\ result.entry = "DualNumber.__add__" /\ zs[2].k = "dual" =>
          LET z == zs[1].i
              w == zs[2].i
          IN  /\ result.kind = "return"
              /\ Out = DualNumber(z.real + w.real, z.dual + w.dual)
              /\ Out = dadd(w, Dual(z)).out
    /\ result.entry = "DualNumber.__add__" /\ zs[2].k = "num" =>
          LET z == zs[1].i
              c == zs[2].i
          IN  /\ result.kind = "return"
              /\ Out = DualNumber(z.real + c, z.dual)
              /\ Out = dradd(z, Num(c)).out
    /\ result.entry = "DualNumber.__radd__" /\ zs[1].k = "num" =>
          LET z == zs[2].i
              c == zs[1].i
          IN  /\ result.kind = "return"
              /\ Out = DualNumber(z.real + c, z.dual)
              /\ Out = dadd(z, Num(c)).out
    /\ result.entry = "DualNumber.__mul__" /\ zs[2].k = "dual" =>
          LET z == zs[1].i
              w == zs[2].i
          IN  /\ result.kind = "return"
              /\ Out = DualNumber(z.real * w.real,
                                  z.real * w.dual + z.dual * w.real)
              /\ Out = dmul(w, Dual(z)).out
    /\ result.entry = "DualNumber.__mul__" /\ zs[2].k = "num" =>
          LET z == zs[1].i
              c == zs[2].i
          IN  /\ result.kind = "return"
              /\ Out = DualNumber(z.real * c, z.dual * c)
              /\ Out = drmul(z, Num(c)).out
    /\ result.entry = "DualNumber.__rmul__" /\ zs[1].k = "num" =>
          LET z == zs[2].i
              c == zs[1].i
          IN  /\ result.kind = "return"
              /\ Out = DualNumber(z.real * c, z.dual * c)
              /\ Out = dmul(z, Num(c)).out

\* c + z has returned for a number c other than 0 and a DualNumber z with
\* a dual part other than 0
C18_Witness ==
    /\ result.entry = "DualNumber.__radd__"
    /\ result.kind = "return"
    /\ zs[1].k = "num"
    /\ zs[1].i # 0
    /\ zs[2].i.dual # 0
    /\ Out.dual = zs[2].i.dual

----------------------------------------------------------------------------
(* C19: for DualNumbers z = (a, a'), w = (b, b') and a number c:           *)
(* z - w = (a - b, a' - b') and z - c = (a - c, a'), each being z plus     *)
(* the operand times -1; c - z = (c - a, -a'); z - z = (0, 0) and          *)
(* (z - w) + w = z.                                                        *)

C19_DualSubtraction ==
    /\ result.entry = "DualNumber.__sub__" /\ zs[2].k = "dual" =>
          LET z == zs[1].i
              w == zs[2].i
          IN  /\ result.kind = "return"
              /\ Out = DualNumber(z.real - w.real, z.dual - w.dual)
              /\ Out = dadd(z, Dual(dmul(w, Num(-1)).out)).out
              /\ dadd(Out, Dual(w)).out = z
              /\ dsub(z, Dual(z)).out = DualNumber(0, 0)
    /\ result.entry = "DualNumber.__sub__" /\ zs[2].k = "num" =>
          LET z == zs[1].i
              c == zs[2].i
          IN  /\ result.kind = "return"
              /\ Out = DualNumber(z.real - c, z.dual)
              /\ Out = dadd(z, Num(c * (-1))).out
              /\ dadd(Out, Num(c)).out = z
    /\ result.entry = "DualNumber.__rsub__" /\ zs[1].k = "num" =>
          LET z == zs[2].i
              c == zs[1].i
          IN  /\ result.kind = "return"
              /\ Out = DualNumber(c - z.real, -z.dual)

\* c - z has returned for a DualNumber z with a dual part other than 0
C19_Witness ==
    /\ result.entry = "DualNumber.__rsub__"
    /\ result.kind = "return"
    /\ zs[1].k = "num"
    /\ zs[2].i.dual # 0
    /\ Out.dual = -zs[2].i.dual
    /\ Out.real = zs[1].i - zs[2].i.real

----------------------------------------------------------------------------
(* C20: graph_object of a root returns exactly the nodes reachable from    *)
(* the root through parent links, the root included, and exactly the pairs *)
(* (parent, child) with child reachable, one per distinct parent; it       *)
(* changes no field of any node.  x + y - 2 gives 5 nodes and 4 edges.     *)

\* the (parent, child) pairs among the nodes reachable from the root
ReachEdges(h, root) ==
    {e \in Reach(h, root) \X Reach(h, root) : e[1] \in h[e[2]].parents}

\* Func.graph has just returned the graph of the output node
GraphReturned ==
    /\ pc = "idle"
    /\ result.kind = "return"
    /\ result.entry = "graph"

C20_GraphIsReachableNodesAndEdges ==
    [][pc = "eval" /\ GraphReturned' =>
         /\ heap' = heap
         /\ result'.nodes = Reach(heap, res'[1])
         /\ result'.edges = ReachEdges(heap, res'[1])
         /\ \A root \in 1..Len(heap), ord \in Orders(heap) :
               graph_object(heap, ord, root) =
                   [nodes |-> Reach(heap, root), edges |-> ReachEdges(heap, root)]]_vars

\* the graph of lambda x, y: x + y - 2 was returned: 5 nodes and 4 edges
C20_Witness ==
    /\ GraphReturned
    /\ func.func.body = <<[op |-> "+", a |-> Slot(1), b |-> Slot(2)],
                          [op |-> "-", a |-> Slot(3), b |-> Num(2)]>>
    /\ Cardinality(result.nodes) = 5
    /\ Cardinality(result.edges) = 4
    /\ result.nodes = 1..Len(heap)

----------------------------------------------------------------------------
(* C22 as stated: every binary operator of an rNode given a number, each   *)
(* reflected form and number ** node included, first creates a leaf for    *)
(* the number and then the result, so the counter advances by 2, the leaf  *)
(* is indexed one below the result and is a parent of it; given two        *)
(* rNodes it creates the result only.                                      *)

\* the node the operator returned, in the heap after the call
ReturnedNode == res'[1].i

\* the operator created a leaf for the number and then the result
LeafThenResult ==
    /\ increment' = increment + 2
    /\ Len(heap') = Len(heap) + 2
    /\ ReturnedNode = Len(heap')
    /\ heap'[ReturnedNode - 1].parents = {}
    /\ heap'[ReturnedNode - 1].oper = ""
    /\ heap'[ReturnedNode - 1].val = OtherOperand.i
    /\ NameIndex(heap'[ReturnedNode - 1].name) = NameIndex(heap'[ReturnedNode].name) - 1
    /\ NameIndex(heap'[ReturnedNode].name) = increment + 1
    /\ (ReturnedNode - 1) \in heap'[ReturnedNode].parents

\* the operator created the result only
ResultOnly ==
    /\ increment' = increment + 1
    /\ Len(heap') = Len(heap) + 1
    /\ ReturnedNode = Len(heap')
    /\ NameIndex(heap'[ReturnedNode].name) = increment
    /\ heap'[ReturnedNode].parents \subseteq 1..Len(heap)

\* an operator of an rNode returns
OperatorReturns ==
    /\ result'.entry \in NodeMethods
    /\ result'.kind = "return"

C22_NumberOperandMakesLeaf ==
    [][OperatorReturns =>
          IF OtherOperand.k = "num" THEN LeafThenResult ELSE ResultOnly]_vars

(* C22 as amended: the same, except that number ** node (__rpow__)         *)
(* creates no leaf for the number: it creates the result only, whose one   *)
(* parent is the node, and the counter advances by 1.                      *)
C22_NumberOperandMakesLeafButRpow ==
    [][OperatorReturns =>
          IF result'.entry = "__rpow__"
          THEN /\ ResultOnly
               /\ heap'[ReturnedNode].parents = {zs[2].i}
          ELSE IF OtherOperand.k = "num" THEN LeafThenResult
          ELSE ResultOnly]_vars

\* number / node has returned, with a leaf for the number below the result
C22_Witness ==
    /\ result.entry = "__rtruediv__"
    /\ result.kind = "return"
    /\ made = 2
    /\ heap[Len(heap) - 1].val = zs[1].i
    /\ (Len(heap) - 1) \in heap[Len(heap)].parents

----------------------------------------------------------------------------
(* C26: a binary operator of an rNode that raises TypeError for its        *)
(* operand, and an elementary function that raises TypeError for its       *)
(* argument or ValueError for an rNode outside its domain, create no       *)
(* node: the counter and every field of every node are as before the call. *)

\* the elementary functions with a domain rule
Elementary == {"log", "log_base", "arcsin", "arccos", "sqrt"}

\* the call refuses its operand: its type, or its value for the domain
Refuses ==
    /\ result'.entry \in NodeMethods \cup Elementary
    /\ result'.kind \in {"TypeError", "ValueError"}

C26_RefusalCreatesNothing ==
    [][Refuses => /\ heap' = heap
                  /\ increment' = increment
                  /\ res' = <<>>]_vars

\* log refused an rNode whose value is not positive, and the node is the
\* only one there is
C26_Witness ==
    /\ result.entry = "log"
    /\ result.kind = "ValueError"
    /\ zs[1].k = "node"
    /\ heap[zs[1].i].val <= 0
    /\ made = 0
    /\ increment = Len(heap)

----------------------------------------------------------------------------
(* C24: in the graph of one evaluation every parent of a node was created  *)
(* before the node and has a strictly smaller creation index, no node is   *)
(* its own ancestor, and the creation indices are pairwise distinct.       *)

\* int(node.name[1:])
CreationIndex(h, n) == NameIndex(h[n].name)

C24_ParentsAreOlder ==
    \A n \in 1..Len(heap) :
        /\ \A par \in heap[n].parents :
              /\ par < n
              /\ CreationIndex(heap, par) < CreationIndex(heap, n)
              /\ n \notin Reach(heap, par)
        /\ \A m \in 1..Len(heap) :
              CreationIndex(heap, m) = CreationIndex(heap, n) => m = n

\* number - node was evaluated on the result of an earlier operator: the
\* leaf for the number and that result are the parents
C24_Witness ==
    /\ pc = "eval"
    /\ \E n \in 1..Len(heap) :
          /\ heap[n].backward_func.rule = "rsub"
          /\ (n - 1) \in heap[n].parents
          /\ heap[n - 1].parents = {}
          /\ \E par \in heap[n].parents : heap[par].parents # {}

----------------------------------------------------------------------------
(* C25: _sort_nodes ends on every graph the operators build and returns    *)
(* each node reachable from the root exactly once and no other node;       *)
(* nodes are told apart by identity, so two nodes of equal value both      *)
(* appear and a node reached along several paths appears once.             *)
(* x + y - 2 gives 5 entries.                                              *)

\* the sequence lists exactly the nodes of the set, each once
ListsOnce(t, S) ==
    /\ Range(t) = S
    /\ Len(t) = Cardinality(S)

C25_SortListsReachableOnce ==
    /\ pc = "eval" =>
          \A root \in 1..Len(heap) : \A ord \in Orders(heap) :
              ListsOnce(sort_nodes(heap, ord, root), Reach(heap, root))
    /\ bw.running => ListsOnce(bw.topo_order, Reach(heap, bw.root))

\* the pass from the output of lambda x, y: x + y - 2 at (2, -1) sorted 5
\* nodes, among them the input 2 and the leaf of the literal 2
C25_Witness ==
    /\ bw.running
    /\ func.func.body = <<[op |-> "+", a |-> Slot(1), b |-> Slot(2)],
                          [op |-> "-", a |-> Slot(3), b |-> Num(2)]>>
    /\ Len(bw.topo_order) = 5
    /\ \E i, j \in 1..5 :
          /\ bw.topo_order[i] # bw.topo_order[j]
          /\ heap[bw.topo_order[i]].val = heap[bw.topo_order[j]].val

----------------------------------------------------------------------------
(* C27: a backward pass from a root changes nothing but the adjoints of    *)
(* the nodes reachable from the root: the value, tag, parents and name of  *)
(* every node, the counter and the adjoint of every node that is not       *)
(* reachable stay as they were, no node is created, and when the pass      *)
(* ends the adjoint of the root is 1.                                      *)

\* the node but for its adjoint
ButAdjoint(node) == [node EXCEPT !.der = Z(0)]

C27_BackwardChangesReachableAdjointsOnly ==
    [][pc = "backward" =>
          /\ increment' = increment
          /\ Len(heap') = Len(heap)
          /\ \A n \in 1..Len(heap) :
                /\ ButAdjoint(heap'[n]) = ButAdjoint(heap[n])
                /\ n \notin Reach(heap, bw'.root) => heap'[n].der = heap[n].der
          /\ (bw'.running /\ bw'.i = 0) => heap'[bw'.root].der = Z(1)]_vars

\* the pass from the second output has ended, and a node it cannot reach
\* keeps the adjoint the first pass gave it
C27_Witness ==
    /\ pc = "backward"
    /\ bw.running
    /\ bw.i = 0
    /\ bw.k = 2
    /\ heap[bw.root].der = Z(1)
    /\ \E n \in 1..Len(heap) :
          /\ n \notin Reach(heap, bw.root)
          /\ heap[n].der # Z(0)

----------------------------------------------------------------------------
(* C28: the row that backward(num_inputs) returns does not depend on the   *)
(* order in which the parent sets are iterated: for every choice of the    *)
(* order at every node, from every output, the row is the same.            *)

\* the rows of the pass from the root under every two iteration orders
SameRowUnderAllOrders(h, root, num_inputs) ==
    \A ord1, ord2 \in Orders(h) :
        backward(h, ord1, root, num_inputs).jacobian_row
            = backward(h, ord2, root, num_inputs).jacobian_row

C28_RowIndependentOfParentOrder ==
    /\ (pc = "backward" /\ ~bw.running) =>
          \A k \in 1..Len(res) : SameRowUnderAllOrders(heap, res[k], func.num_inputs)
    /\ (pc = "backward" /\ bw.running /\ bw.i = 0) =>
          \A ord \in Orders(heap) :
              bw.jacobian_row
                  = backward(heap, ord, bw.root, func.num_inputs).jacobian_row

\* a pass has ended whose sorted list is one of two that the orders give,
\* with a row other than zero
C28_Witness ==
    /\ pc = "backward"
    /\ bw.running
    /\ bw.i = 0
    /\ \E ord \in Orders(heap) : sort_nodes(heap, ord, bw.root) # bw.topo_order
    /\ \E j \in 1..func.num_inputs : bw.jacobian_row[j] # Z(0)

----------------------------------------------------------------------------
(* C23: a jacobian call that returns has called the user function          *)
(* num_inputs times in forward mode, the i-th time on the point seeded     *)
(* with dual part 1 at position i and 0 elsewhere, filling column i; in    *)
(* reverse mode it has called it once and then made num_outputs backward   *)
(* passes, the k-th from output k, filling row k.                          *)

\* the DualNumbers of the i-th call of forward mode
SeededAt(point, i) ==
    [j \in 1..Len(point) |-> DualNumber(point[j], IF j = i THEN 1 ELSE 0)]

\* the dual part of output k of the function on the DualNumbers dzs
OutputDual(F, dzs, k) == RunDual(F.func.body, dzs)[F.func.ret[k]].dual

\* one call of the function in forward mode fills its column, and only it
ColumnFilled ==
    /\ calls' = calls + 1
    /\ \A k \in 1..func.num_outputs : \A j \in 1..func.num_inputs :
          jacobian'[k][j] =
              IF j = calls'
              THEN Z(OutputDual(func, SeededAt(frame.point, calls'), k))
              ELSE jacobian[k][j]

\* one backward pass fills its row, and only it
RowFilled ==
    /\ bw.root = res[bw.k]
    /\ \A k \in 1..func.num_outputs :
          jacobian'[k] = IF k = bw.k THEN bw.jacobian_row ELSE jacobian[k]

C23_CallsAndPasses ==
    [][/\ (pc = "column" /\ pc' = "column" /\ calls' # calls) => ColumnFilled
       /\ (pc = "backward" /\ ~bw.running /\ bw'.running) => bw'.k = bw.k + 1
       /\ (pc = "backward" /\ bw.running /\ ~bw'.running) => RowFilled
       /\ (pc = "backward" /\ pc' = "backward") => calls' = calls
       /\ (pc = "format" /\ JacobianReturned') =>
             IF frame.reverse
             THEN calls = 1 /\ bw.k = func.num_outputs
             ELSE calls = func.num_inputs /\ bw.k = 0]_vars

\* a forward-mode call on two inputs has returned after two calls of the
\* function, and a reverse-mode call returned before it
C23_Witness ==
    /\ JacobianReturned
    /\ ~result.reverse
    /\ func.num_inputs = 2
    /\ calls = 2
    /\ prev.kind = "return"
    /\ \E k \in 1..func.num_outputs : jacobian[k][2] # Z(0)

----------------------------------------------------------------------------
(* C30: for every function of the family and every point, trace in the     *)
(* i-th one-hot direction returns as derivatives column i of the           *)
(* forward-mode jacobian and as values the values evaluate gives; in any   *)
(* direction d the derivatives are the jacobian applied to d.              *)

\* a call of trace has just returned
TraceReturned ==
    /\ pc = "idle"
    /\ result.kind = "return"
    /\ result.entry = "trace"

\* row k of the matrix applied to the direction d
RowTimes(jac, k, d) == SumSeq([j \in 1..Len(d) |-> jac[k][j].n * d[j]])

\* the direction is the i-th one-hot vector
OneHot(d, i) == \A j \in 1..Len(d) : d[j] = IF j = i THEN 1 ELSE 0

C30_TraceIsJacobianTimesDirection ==
    TraceReturned =>
        LET J == forward(func, result.point).jacobian
            d == result.seed_vector
        IN  /\ Len(result.deriv) = func.num_outputs
            /\ \A k \in 1..func.num_outputs :
                  /\ result.deriv[k] = RowTimes(J, k, d)
                  /\ \A i \in 1..func.num_inputs :
                        OneHot(d, i) => Z(result.deriv[k]) = J[k][i]
            /\ result.val.v = evaluate(func, result.point).v

\* trace of fofx in the second one-hot direction returned (x**2, -1)
C30_Witness ==
    /\ TraceReturned
    /\ func = Fofx
    /\ OneHot(result.seed_vector, 2)
    /\ result.deriv = <<IPow(result.point[1], 2), -1>>
    /\ result.deriv[1] # 0

----------------------------------------------------------------------------
(* C29: a reverse-mode jacobian call returns what it returns when it is    *)
(* the first call made, whatever ran before it: graph, evaluate, trace,    *)
(* jacobian in either mode, calls that raised after nodes were created,    *)
(* or nodes the caller constructed.                                        *)

RECURSIVE RunNode(_, _, _)
\* self.func(*zs) on Graph Nodes from the state st: the state and the slots
\* after the body has run
RunNode(st, env, body) ==
    IF body = <<>> THEN [heap |-> st.heap, increment |-> st.increment, zs |-> env]
    ELSE LET r == ApplyNode(st, env, Head(body))
         IN  RunNode([heap |-> r.heap, increment |-> r.increment],
                     Append(env, r.out), Tail(body))

\* the order that iterates every parent set from the older parent on
OlderFirst(h) == [n \in 1..Len(h) |-> FALSE]

RECURSIVE PassesFrom(_, _, _, _, _)
\* the backward passes of Func._reverse from output k on: the rows
PassesFrom(F, h, outs, k, rows) ==
    IF k > Len(outs) THEN rows
    ELSE LET b == backward(h, OlderFirst(h), outs[k], F.num_inputs)
         IN  PassesFrom(F, b.heap, outs, k + 1, Append(rows, b.jacobian_row))

\* Func._reverse as the first call made in the process: counter at 0, no
\* node anywhere
FirstReverse(F, point) ==
    LET st == Wrap([heap |-> <<>>, increment |-> 0], point)
        e == RunNode(st, [j \in 1..Len(point) |-> j], F.func.body)
        outs == [k \in 1..Len(F.func.ret) |-> e.zs[F.func.ret[k]]]
    IN  [jacobian |-> PassesFrom(F, e.heap, outs, 1, <<>>),
         val |-> IF F.func.bare THEN Scalar(e.heap[outs[1]].val)
                 ELSE Array([k \in 1..Len(outs) |-> e.heap[outs[k]].val])]

C29_ReverseIgnoresEarlierState ==
    ReverseReturned =>
        LET first == FirstReverse(func, result.point)
        IN  /\ result.jac = Format(first.jacobian)
            /\ result.feval => result.val = first.val
            /\ prev.kind = "return" /\ prev.point = result.point

\* the function as its callable returns it: the number of its outputs
Returns(F) == IF F.func.bare THEN 1 ELSE Len(F.func.ret)

\* the first reverse-mode call of the session is entered on a Func declared
\* as its callable returns, and finds the counter above 0: a graph call, a
\* call that raised with its nodes made, or the caller left it there
C29_Witness ==
    /\ pc = "reverse"
    /\ frame.reverse
    /\ prev.kind = "none"
    /\ func.num_outputs = Returns(func)
    /\ increment > func.num_inputs

----------------------------------------------------------------------------
(* Two reverse-mode evaluations in one process.  The first is the call of  *)
(* Func.jacobian above; the second - another thread, or a reverse-mode     *)
(* call made from inside the user function - evaluates the same function   *)
(* at the same point and shares rNode.increment with the first.  Nothing   *)
(* in the code makes one wait for the other: the steps of the second are   *)
(* enabled wherever the first stands.                                      *)

\* the nodes one reverse-mode evaluation of F at the point creates
NodesOfRun(F, point) ==
    Len(RunNode(Wrap([heap |-> <<>>, increment |-> 0], point),
                [j \in 1..Len(point) |-> j], F.func.body).heap)

\* the first evaluation is between its counter reset and its last node
\* creation
first_inside ==
    /\ pc = "eval"
    /\ frame.entry = "jacobian"
    /\ Len(zs) - func.num_inputs < Len(func.func.body)

\* a faulty start of the second evaluation that leaves the counter alone
second_reset_NoReset ==
    /\ second.at = "before"
    /\ second' = [second EXCEPT !.at = "inside", !.left = increment,
                                !.overlapped = first_inside]
    /\ UNCHANGED <<func, p, increment, heap, frame, pc, zs, res, jacobian, val,
                   bw, calls, made, result, prev>>

\* Func._reverse of the second evaluation, line 132: rNode.increment = 0
second_reset ==
    /\ second.at = "before"
    /\ increment' = 0
    /\ second' = [second EXCEPT !.at = "inside", !.left = 0,
                                !.overlapped = first_inside]
    /\ UNCHANGED <<func, p, heap, frame, pc, zs, res, jacobian, val, bw, calls,
                   made, result, prev>>

\* rNode.__init__ in the second evaluation: an input node, a leaf for a
\* number or the result of an operator takes its name from the counter
second_node ==
    /\ second.at = "inside"
    /\ increment' = increment + 1
    /\ second' =
          [at |-> IF Len(second.names) + 1 = NodesOfRun(func, p)
                  THEN "after" ELSE "inside",
           names |-> Append(second.names, increment),
           left |-> increment + 1,
           overlapped |-> \/ second.overlapped
                          \/ first_inside
                          \/ increment # second.left]
    /\ UNCHANGED <<func, p, heap, frame, pc, zs, res, jacobian, val, bw, calls,
                   made, result, prev>>

NextThreads ==
    \/ /\ result.kind = "none"
       /\ jacobian_call(p, FALSE, TRUE)
    \/ reverse_begin
    \/ func_step
    \/ reverse_returned
    \/ backward_begin
    \/ backward_step
    \/ backward_return
    \/ jacobian_return
    \/ second_reset
    \/ second_node

SpecThreads == Init /\ [][NextThreads]_vars

----------------------------------------------------------------------------
(* C21: two reverse-mode evaluations that run one after the other each     *)
(* satisfy the input-identity mapping (and the first returns the jacobian  *)
(* of an evaluation alone); when the second resets the counter or creates  *)
(* nodes between the reset and the last node creation of the first, a      *)
(* state is reachable where a node that is no input has a creation index   *)
(* below num_inputs and a jacobian column holds a wrong adjoint.  The      *)
(* code has no mutual exclusion.                                           *)

\* the creation indices map the inputs, and only them, to 0..num_inputs-1
InputIdentity(indices, num_inputs) ==
    \A n \in 1..Len(indices) :
        IF n <= num_inputs THEN indices[n] = n - 1 ELSE indices[n] >= num_inputs

\* the creation indices of the nodes of the first evaluation
FirstIndices == [n \in 1..Len(heap) |-> CreationIndex(heap, n)]

C21_OneAtATimeKeepsInputIdentity ==
    ~second.overlapped =>
        /\ (frame.entry = "jacobian" /\ pc \in {"eval", "backward", "format"}) =>
              InputIdentity(FirstIndices, func.num_inputs)
        /\ ReverseReturned =>
              /\ InputIdentity(FirstIndices, func.num_inputs)
              /\ result.jac = Format(FirstReverse(func, result.point).jacobian)
        /\ InputIdentity(second.names, func.num_inputs)

\* the evaluations overlapped, a node of the first that is no input has a
\* creation index below num_inputs, and the jacobian returned is not the one
\* of an evaluation alone
C21_Witness ==
    /\ ReverseReturned
    /\ second.overlapped
    /\ \E n \in (func.num_inputs + 1)..Len(heap) :
          CreationIndex(heap, n) < func.num_inputs
    /\ result.jac # Format(FirstReverse(func, result.point).jacobian)

====
